---------------------------- MODULE Spec2Model ----------------------------
(***************************************************************************)
(* Model of the transaction core of tycho-vm:                              *)
(*   - the action phase executor (executor/src/phase/action.rs), which     *)
(*     walks the output action list left in c5, validates it and executes  *)
(*     SendMsg / SetCode / ReserveCurrency / ChangeLibrary;                *)
(*   - the installation of output actions by the VM (instr/messageops.rs); *)
(*   - the VM run loop with its commit discipline (vm/src/state.rs).       *)
(*                                                                         *)
(* Cells are modelled structurally: an action list is a chain of cells,    *)
(* each holding its predecessor as first reference.  Currency amounts are  *)
(* small naturals; one extra currency is tracked beside the native tokens. *)
(***************************************************************************)
EXTENDS Integers, Sequences, FiniteSets, TLC

VARIABLES
    pc,     \* position inside action_phase / the VM run loop
    st,     \* ExecutorState: balance, total_fees, end_lt, out_msgs, state, ...
    inp,    \* ActionPhaseContext: the arguments of action_phase
    res,    \* ActionPhaseFull under construction / as returned
    ctx,    \* ActionContext (local to action_phase), parsed list and cursor
    hist,   \* history: snapshot at phase start and log of executed actions
    vm      \* VmState of the run loop

vars == <<pc, st, inp, res, ctx, hist, vm>>

-----------------------------------------------------------------------------
(* Bounds of the model                                                     *)

\* Longest action list whose actions are chosen freely from the pool.
MaxActs == 2

\* How far beyond MAX_ACTIONS the long (uniform) action lists reach.
LongExtra == 2

-----------------------------------------------------------------------------
(* Program constants                                                       *)

MAX_ACTIONS == 255

MAX_BIT_LEN == 1023
MAX_REF_COUNT == 4

\* SendMsgFlags
PAY_FEE_SEPARATELY == 1
IGNORE_ERROR == 2
BOUNCE_ON_ERROR == 16
DELETE_IF_EMPTY == 32
WITH_REMAINING_BALANCE == 64
ALL_BALANCE == 128

\* ReserveCurrencyFlags
ALL_BUT == 1
WITH_ORIGINAL_BALANCE == 4
REVERSE == 8

\* ChangeLibraryMode
ADD_PRIVATE == 1
ADD_PUBLIC == 2

\* ResultCode
ActionListInvalid == 32
TooManyActions == 33
ActionInvalid == 34
InvalidSrcAddr == 35
InvalidDstAddr == 36
NotEnoughBalance == 37
NotEnoughExtraBalance == 38
FailedToFitMessage == 39
MessageOutOfLimits == 40
NoLibCode == 41
InvalidLibrariesDict == 42
LibOutOfLimits == 43
StateOutOfLimits == 50

\* Option::None for numeric fields (result_arg, total_fwd_fees, ...).
None == -1

-----------------------------------------------------------------------------
(* Bit flags                                                               *)

\* mode.contains(flag) for a single-bit flag
HasFlag(mode, flag) == (mode \div flag) % 2 = 1

\* mode.contains(a | b)
HasBoth(mode, a, b) == HasFlag(mode, a) /\ HasFlag(mode, b)

RECURSIVE BitAndNot(_, _, _)
\* mode & !mask over the eight bits of a mode byte, bit by bit from `bit`
BitAndNot(mode, mask, bit) ==
    IF bit > 128 THEN 0
    ELSE (IF HasFlag(mode, bit) /\ ~HasFlag(mask, bit) THEN bit ELSE 0)
         + BitAndNot(mode, mask, 2 * bit)

\* SendMsgFlags::all().bits()
SEND_MSG_MASK ==
    PAY_FEE_SEPARATELY + IGNORE_ERROR + BOUNCE_ON_ERROR + DELETE_IF_EMPTY
        + WITH_REMAINING_BALANCE + ALL_BALANCE

\* EXT_MSG_MASK of do_send_message
EXT_MSG_MASK == PAY_FEE_SEPARATELY + IGNORE_ERROR + BOUNCE_ON_ERROR

\* ReserveCurrencyFlags::all().bits()
RESERVE_MASK ==
    ALL_BUT + IGNORE_ERROR + WITH_ORIGINAL_BALANCE + REVERSE + BOUNCE_ON_ERROR

-----------------------------------------------------------------------------
(* Currency collections: native tokens and one extra currency              *)

CC(t, o) == [tokens |-> t, other |-> o]
ZeroCC == CC(0, 0)
CCIsZero(c) == c.tokens = 0 /\ c.other = 0
CCAdd(a, b) == CC(a.tokens + b.tokens, a.other + b.other)

Min(a, b) == IF a < b THEN a ELSE b
Max(a, b) == IF a > b THEN a ELSE b


-----------------------------------------------------------------------------
(* Messages, libraries and output actions                                  *)

\* Statistics of the subtree below one reference (cells and bits).
Sub(c, b) == [cells |-> c, bits |-> b]

\* A relaxed message as do_send_message reads it from its root cell.
\*   exotic    the root cell is exotic
\*   parse_ok  info, state init and body load without error
\*   trailing  data is left in the root slice after the body
\*   kind      "Int" or "ExtOut"
\*   src_ok    check_rewrite_src_addr accepts the source address
\*   dst       "base", "mc" (masterchain) or "bad" (rejected destination)
\*   value     declared value (Int only)
\*   info_bits bits of the serialized message info
\*   init      state init slice: bits (with its Maybe/Either prefix) and the
\*             subtrees below its references
\*   body      body slice: to_cell is its Either bit, bits count the prefix
\*   id        content of the body, to tell messages apart
Msg(kind, dst, value, init, body, id) ==
    [exotic |-> FALSE, parse_ok |-> TRUE, trailing |-> FALSE,
     kind |-> kind, src_ok |-> TRUE, dst |-> dst, value |-> value,
     info_bits |-> 600, init |-> init, body |-> body, id |-> id]

\* nothing$0: no state init
NoInit == [bits |-> 1, refs |-> <<>>]
\* just$1 (left$0 StateInit) with code and data references
InlineInit == [bits |-> 7, refs |-> <<Sub(1, 16), Sub(1, 32)>>]
\* left$0 with no data: the empty body
EmptyBody == [to_cell |-> FALSE, bits |-> 1, refs |-> <<>>]

NoMsg == Msg("Int", "base", ZeroCC, NoInit, EmptyBody, 0)

\* LibRef: a cell (with the size of its tree) or a bare hash.
Lib(kind, hash, cells) == [kind |-> kind, hash |-> hash, cells |-> cells]
NoLib == Lib("Hash", 0, 0)

\* A code cell: its content and the number of cells of its tree.
Code(id, cells) == [id |-> id, cells |-> cells]
NoCode == Code(0, 0)

\* OutAction
Action(type, mode, msg, value, lib, code) ==
    [type |-> type, mode |-> mode, msg |-> msg, value |-> value,
     lib |-> lib, code |-> code]

SendMsg(mode, msg) == Action("SendMsg", mode, msg, ZeroCC, NoLib, NoCode)
SetCode(code) == Action("SetCode", 0, NoMsg, ZeroCC, NoLib, code)
ReserveCurrency(mode, value) ==
    Action("ReserveCurrency", mode, NoMsg, value, NoLib, NoCode)
ChangeLibrary(mode, lib) == Action("ChangeLibrary", mode, NoMsg, ZeroCC, lib, NoCode)
NoAction == Action("None", 0, NoMsg, ZeroCC, NoLib, NoCode)

-----------------------------------------------------------------------------
(* Cells of the action list                                                *)

\* The data of an action cell behind its first reference:
\*   bits      number of data bits
\*   tag       the leading 32-bit tag ("SendMsg", ..., or "Unknown")
\*   mode      the byte after the tag
\*   parse_ok  OutAction::load_from succeeds
\*   trailing  data is left after the parsed action
\*   action    the action load_from returns
Body(bits, tag, mode, parse_ok, trailing, action) ==
    [bits |-> bits, tag |-> tag, mode |-> mode, parse_ok |-> parse_ok,
     trailing |-> trailing, action |-> action]

NoBody == Body(0, "Unknown", 0, FALSE, FALSE, NoAction)

\* OutAction::store_into: tag, then the fields of the variant.
StoreOutAction(action) ==
    Body(IF action.type = "SetCode" THEN 32 ELSE 40, action.type, action.mode,
         TRUE, FALSE, action)

\* Data that is not an action: `bits` bits starting with `tag` and `mode`.
RawBody(bits, tag, mode) == Body(bits, tag, mode, FALSE, FALSE, NoAction)

\* A well-formed action followed by extra data.
TrailingBody(action) ==
    [StoreOutAction(action) EXCEPT !.trailing = TRUE, !.bits = @ + 8]

\* A cell of the action list: whether it is exotic, how many references it
\* has, and the data behind the first reference.
Cell(exotic, refs, body) == [exotic |-> exotic, refs |-> refs, body |-> body]

\* Cell::empty_cell(): ordinary, no bits, no references.
EmptyCell == Cell(FALSE, 0, NoBody)
\* An exotic cell (a Merkle proof, with its one child).
ExoticCell == Cell(TRUE, 1, NoBody)
\* An ordinary cell with data but without references.
NoRefCell == Cell(FALSE, 0, RawBody(32, "Unknown", 0))

\* cs.is_empty(): no data bits and no references left.
CellIsEmpty(cell) == cell.body.bits = 0 /\ cell.refs = 0

\* An action list (the content of c5) is the sequence of the cells met by
\* following first references from its head: c5[1] is the head, c5[k + 1] the
\* first reference of c5[k].

\* CellBuilder::build_from((c5, data)): previous head first, then the data.
BuildActionCell(c5, body) == <<Cell(FALSE, 1, body)>> \o c5

\* add_action: the new head of c5 references the previous head.
add_action(c5, action) == BuildActionCell(c5, StoreOutAction(action))

\* The list obtained from `root` by installing `bodies` one after another.
make_action_list(root, bodies) ==
    [k \in 1..Len(bodies) |-> Cell(FALSE, 1, bodies[Len(bodies) + 1 - k])] \o <<root>>

-----------------------------------------------------------------------------
(* action_phase: unpacking the list                                        *)

Reverse(s) == [i \in 1..Len(s) |-> s[Len(s) + 1 - i]]

\* The bound checked one action too early.
TooMany_AtLimit(action_idx) == action_idx >= MAX_ACTIONS

\* action_idx > MAX_ACTIONS
TooMany(action_idx) == action_idx > MAX_ACTIONS

\* The walk with the cell that lacks its reference counted as passed.
WalkStep_CountsPushed(actions, action_idx) ==
    IF actions.exotic
    THEN [kind |-> "fail", code |-> ActionListInvalid, arg |-> action_idx]
    ELSE IF CellIsEmpty(actions)
    THEN [kind |-> "break", code |-> 0, arg |-> action_idx]
    ELSE IF actions.refs = 0
    THEN [kind |-> "fail", code |-> ActionListInvalid, arg |-> action_idx + 1]
    ELSE IF action_idx + 1 > MAX_ACTIONS
    THEN [kind |-> "fail", code |-> TooManyActions, arg |-> action_idx + 1]
    ELSE [kind |-> "continue", code |-> 0, arg |-> action_idx + 1]

\* One iteration of the loop over the chain: `actions` is the cell under
\* inspection, `action_idx` the number of cells passed so far.
\*   "break"     the list ends here
\*   "continue"  the cell is pushed, the loop goes on with its first reference
\*   "fail"      the phase ends with `code` and `arg`
WalkStep(actions, action_idx) ==
    IF actions.exotic
    THEN [kind |-> "fail", code |-> ActionListInvalid, arg |-> action_idx]
    ELSE IF CellIsEmpty(actions)
    THEN [kind |-> "break", code |-> 0, arg |-> action_idx]
    ELSE IF actions.refs = 0
    THEN [kind |-> "fail", code |-> ActionListInvalid, arg |-> action_idx]
    ELSE IF TooMany(action_idx + 1)
    THEN [kind |-> "fail", code |-> TooManyActions, arg |-> action_idx + 1]
    ELSE [kind |-> "continue", code |-> 0, arg |-> action_idx + 1]

\* The list parsed in the order of the walk.
ParseOrder_NotReversed(list) == list

\* list.into_iter().rev()
ParseOrder(list) == Reverse(list)

\* The validation without the check that the action fills the slice.
ParseOne_AcceptsTrailing(cs) ==
    IF cs.parse_ok THEN "ok"
    ELSE IF cs.bits >= 40 /\ cs.tag = "SendMsg"
    THEN IF HasFlag(cs.mode, IGNORE_ERROR) THEN "skip"
         ELSE IF HasFlag(cs.mode, BOUNCE_ON_ERROR) THEN "bounce"
         ELSE "fail"
    ELSE "fail"

\* The validation with BOUNCE_ON_ERROR looked at before IGNORE_ERROR.
ParseOne_BounceFirst(cs) ==
    IF cs.parse_ok /\ ~cs.trailing THEN "ok"
    ELSE IF cs.bits >= 40 /\ cs.tag = "SendMsg"
    THEN IF HasFlag(cs.mode, BOUNCE_ON_ERROR) THEN "bounce"
         ELSE IF HasFlag(cs.mode, IGNORE_ERROR) THEN "skip"
         ELSE "fail"
    ELSE "fail"

\* Outcome of the validation of one cell:
\*   "ok" the action is accepted, "skip" it is skipped, "bounce" / "fail" the
\*   phase fails with or without a bounce request.
ParseOne(cs) ==
    IF cs.parse_ok /\ ~cs.trailing THEN "ok"
    ELSE IF cs.bits >= 40 /\ cs.tag = "SendMsg"
    THEN IF HasFlag(cs.mode, IGNORE_ERROR) THEN "skip"
         ELSE IF HasFlag(cs.mode, BOUNCE_ON_ERROR) THEN "bounce"
         ELSE "fail"
    ELSE "fail"

-----------------------------------------------------------------------------
(* Forwarding prices and storage statistics                                *)

\* shift_ceil_price: (value >> 16), rounded up
shift_ceil_price(value) ==
    (value \div 65536) + (IF value % 65536 # 0 THEN 1 ELSE 0)

\* MsgForwardPrices::compute_fwd_fee
compute_fwd_fee(prices, stats) ==
    prices.lump_price
        + shift_ceil_price(prices.bit_price * stats.bit_count
                               + prices.cell_price * stats.cell_count)

\* tokens_mul_frac: value * frac >> 16
tokens_mul_frac(value, frac) == (value * frac) \div 65536

\* MsgForwardPrices::get_first_part
get_first_part(prices, total) == tokens_mul_frac(total, prices.first_frac)

\* (prices.cell_price >> 16) / 4
FinePerCell(prices) == (prices.cell_price \div 65536) \div 4

\* config.fwd_prices(use_mc_prices)
fwd_prices(config, use_mc_prices) ==
    IF use_mc_prices THEN config.mc_fwd_prices ELSE config.fwd_prices

RECURSIVE AddCells(_, _, _, _)
\* ExtStorageStat: add the subtrees `subs` from index `i` under `limits`.
\* The walk stops at the first subtree that crosses a limit; `cells` then is
\* the number of cells visited when it stopped.
AddCells(stat, subs, i, limits) ==
    IF i > Len(subs) THEN stat
    ELSE LET cells == stat.cells + subs[i].cells
             bits == stat.bits + subs[i].bits
         IN  IF cells > limits.cell_count
             THEN [ok |-> FALSE, cells |-> limits.cell_count + 1, bits |-> stat.bits]
             ELSE IF bits > limits.bit_count
             THEN [ok |-> FALSE, cells |-> cells, bits |-> bits]
             ELSE AddCells([ok |-> TRUE, cells |-> cells, bits |-> bits],
                           subs, i + 1, limits)

\* The cells the size of a message is computed from: the references of the
\* state init, those of the body, and the root of the extra currencies.
MsgChildren(msg, init, body) ==
    init.refs \o body.refs
        \o (IF msg.kind = "Int" /\ msg.value.other # 0 THEN <<Sub(1, 40)>> ELSE <<>>)

RECURSIVE SumCells(_, _)
SumCells(subs, i) == IF i > Len(subs) THEN 0 ELSE subs[i].cells + SumCells(subs, i + 1)

RECURSIVE SumBits(_, _)
SumBits(subs, i) == IF i > Len(subs) THEN 0 ELSE subs[i].bits + SumBits(subs, i + 1)

-----------------------------------------------------------------------------
(* Message layout rewriting                                                *)

\* MessageRewrite::next
\* The state init layout left out of the sequence.
MessageRewriteNext_SkipsInit(rewrite) ==
    CASE rewrite = "None" -> "BodyToCell"
      [] OTHER -> "Exhausted"

\* MessageRewrite::next
MessageRewriteNext(rewrite) ==
    CASE rewrite = "None" -> "StateInitToCell"
      [] rewrite = "StateInitToCell" -> "BodyToCell"
      [] OTHER -> "Exhausted"

\* just$1 (left$0 StateInit)  ->  just$1 (right$1 ^StateInit)
rewrite_state_init_to_cell(cs) ==
    [bits |-> 2,
     refs |-> <<Sub(1 + SumCells(cs.refs, 1), (cs.bits - 2) + SumBits(cs.refs, 1))>>]

\* The body moved to a reference whose own cell is not counted.
rewrite_body_to_cell_NoCell(cs) ==
    [to_cell |-> TRUE, bits |-> 1,
     refs |-> <<Sub(SumCells(cs.refs, 1), (cs.bits - 1) + SumBits(cs.refs, 1))>>]

\* left$0 X  ->  right$1 ^X
rewrite_body_to_cell(cs) ==
    [to_cell |-> TRUE, bits |-> 1,
     refs |-> <<Sub(1 + SumCells(cs.refs, 1), (cs.bits - 1) + SumBits(cs.refs, 1))>>]

\* The layout do_send_message works on under `rewrite`.
ApplyRewrite(msg, rewrite) ==
    LET to_init == rewrite = "StateInitToCell" /\ Len(msg.init.refs) >= 2
        rw == IF rewrite = "StateInitToCell" /\ ~to_init THEN "BodyToCell" ELSE rewrite
        to_body == rw = "BodyToCell" /\ msg.body.bits > 1 /\ ~msg.body.to_cell
    IN  [rewrite |-> rw,
         init |-> IF to_init THEN rewrite_state_init_to_cell(msg.init) ELSE msg.init,
         body |-> IF to_body THEN rewrite_body_to_cell(msg.body) ELSE msg.body,
         init_to_cell |-> to_init,
         body_to_cell |-> to_body \/ msg.body.to_cell]

\* build_message: the root cell takes info, state init slice and body slice.
BuildOverflows(msg, value, layout) ==
    \/ msg.info_bits + layout.init.bits + layout.body.bits > MAX_BIT_LEN
    \/ (IF msg.kind = "Int" /\ value.other # 0 THEN 1 ELSE 0)
           + Len(layout.init.refs) + Len(layout.body.refs) > MAX_REF_COUNT


-----------------------------------------------------------------------------
(* do_send_message                                                         *)
(* The operators below take and return `a`, the pair of the ActionContext  *)
(* (a.ctx) and the ActionPhaseFull it points into (a.res).                 *)

\* Ok(SendMsgResult::Sent), Ok(SendMsgResult::Rewrite(r)), Err(ActionFailed)
Sent(a) == [result |-> "Sent", rewrite |-> "None", a |-> a]
\* A rewrite returned after the fine of one cell was collected.
Rewrite_Fined(r, a) ==
    [result |-> "Rewrite", rewrite |-> r,
     a |-> [a EXCEPT !.res.action_fine = @ + 1,
                     !.ctx.remaining_balance.tokens = Max(@ - 1, 0)]]

Rewrite(r, a) == [result |-> "Rewrite", rewrite |-> r, a |-> a]
Failed(a) == [result |-> "Err", rewrite |-> "None", a |-> a]

\* The error raised whatever the mode says.
check_skip_invalid_NeverSkips(skip_invalid, e, a) ==
    [result |-> "Err", rewrite |-> "None",
     a |-> [a EXCEPT !.res.action_phase.result_code = e]]

\* The closure check_skip_invalid: skip under IGNORE_ERROR, else fail with `e`.
check_skip_invalid(skip_invalid, e, a) ==
    IF skip_invalid
    THEN Sent([a EXCEPT !.res.action_phase.skipped_actions = @ + 1])
    ELSE Failed([a EXCEPT !.res.action_phase.result_code = e])

\* The fine recorded but not taken from the remaining balance.
collect_fine_NoCharge(fine_per_cell, max_cell_count, cells, a) ==
    LET fine == Min(fine_per_cell * Min(max_cell_count, cells),
                    a.ctx.remaining_balance.tokens)
    IN  [a EXCEPT !.res.action_fine = @ + fine]

\* The whole remaining balance taken as the fine.
collect_fine_WholeBalance(fine_per_cell, max_cell_count, cells, a) ==
    [a EXCEPT !.res.action_fine = @ + a.ctx.remaining_balance.tokens,
              !.ctx.remaining_balance.tokens = 0]

\* The closure collect_fine: charge for `cells` visited cells, at most what
\* is left on the balance.
collect_fine(fine_per_cell, max_cell_count, cells, a) ==
    LET fine == Min(fine_per_cell * Min(max_cell_count, cells),
                    a.ctx.remaining_balance.tokens)
    IN  [a EXCEPT !.res.action_fine = @ + fine,
                  !.ctx.remaining_balance.tokens = @ - fine]

\* check_skip_invalid once the size of the message is known: it collects
\* the fine for the visited cells first.
check_skip_invalid_fine(skip_invalid, e, fine_per_cell, max_cell_count, cells, a) ==
    check_skip_invalid(skip_invalid, e,
                       collect_fine(fine_per_cell, max_cell_count, cells, a))

\* The fees charged on top of the value whatever the mode says.
rewrite_message_value_FeesOnTop(a, value0, mode0, fees_total, gas_fees) ==
    LET all == HasFlag(mode0, ALL_BALANCE)
        with_rem == ~all /\ HasFlag(mode0, WITH_REMAINING_BALANCE)
        rm == a.ctx.received_message
        v1 == IF all THEN a.ctx.remaining_balance
              ELSE IF with_rem /\ rm.present THEN CCAdd(value0, rm.balance_remaining)
              ELSE value0
    IN  IF all
        THEN IF v1.tokens < fees_total THEN [ok |-> FALSE, value |-> value0, total |-> 0]
             ELSE [ok |-> TRUE, value |-> [v1 EXCEPT !.tokens = @ - fees_total],
                   total |-> v1.tokens]
        ELSE [ok |-> TRUE, value |-> v1, total |-> v1.tokens + fees_total]

\* The value of the inbound message never attached.
rewrite_message_value_DeclaredOnly(a, value0, mode0, fees_total, gas_fees) ==
    LET all == HasFlag(mode0, ALL_BALANCE)
        with_rem == ~all /\ HasFlag(mode0, WITH_REMAINING_BALANCE)
        pay_sep == ~all /\ HasFlag(mode0, PAY_FEE_SEPARATELY)
        v1 == IF all THEN a.ctx.remaining_balance ELSE value0
        sub == IF with_rem /\ ~pay_sep THEN a.res.action_fine + gas_fees ELSE 0
        v2 == [v1 EXCEPT !.tokens = @ - sub]
    IN  IF v2.tokens < 0 THEN [ok |-> FALSE, value |-> value0, total |-> 0]
        ELSE IF pay_sep
        THEN [ok |-> TRUE, value |-> v2, total |-> v2.tokens + fees_total]
        ELSE IF v2.tokens < fees_total THEN [ok |-> FALSE, value |-> value0, total |-> 0]
        ELSE [ok |-> TRUE, value |-> [v2 EXCEPT !.tokens = @ - fees_total],
              total |-> v2.tokens]

\* ActionContext::rewrite_message_value: the value the message will carry
\* and the amount withdrawn from the balance, or an error.
rewrite_message_value(a, value0, mode0, fees_total, gas_fees) ==
    LET all == HasFlag(mode0, ALL_BALANCE)
        with_rem == ~all /\ HasFlag(mode0, WITH_REMAINING_BALANCE)
        pay_sep == ~all /\ HasFlag(mode0, PAY_FEE_SEPARATELY)
        rm == a.ctx.received_message
        v1 == IF all THEN a.ctx.remaining_balance
              ELSE IF with_rem /\ rm.present THEN CCAdd(value0, rm.balance_remaining)
              ELSE value0
        sub == IF with_rem /\ ~pay_sep THEN a.res.action_fine + gas_fees ELSE 0
        fine_ok == ~(with_rem /\ ~pay_sep) \/ v1.tokens >= a.res.action_fine
        v2 == [v1 EXCEPT !.tokens = @ - sub]
    IN  IF ~fine_ok \/ v2.tokens < 0 THEN [ok |-> FALSE, value |-> value0, total |-> 0]
        ELSE IF pay_sep
        THEN [ok |-> TRUE, value |-> v2, total |-> v2.tokens + fees_total]
        ELSE IF v2.tokens < fees_total THEN [ok |-> FALSE, value |-> value0, total |-> 0]
        ELSE [ok |-> TRUE, value |-> [v2 EXCEPT !.tokens = @ - fees_total],
              total |-> v2.tokens]

\* update_total_msg_stat
update_total_msg_stat(total_message_size, stats, root_bits) ==
    [bits |-> total_message_size.bits + stats.bit_count + root_bits,
     cells |-> total_message_size.cells + stats.cell_count + 1]

\* The part of the forwarding fee kept by the sender's side.
\* The whole forwarding fee collected whatever the kind of the message.
FeesCollected_Whole(msg, prices, fwd_fee) == fwd_fee

\* The part of the forwarding fee the sender's validators collect.
FeesCollected(msg, prices, fwd_fee) ==
    IF msg.kind = "Int" THEN get_first_part(prices, fwd_fee) ELSE fwd_fee

\* The bookkeeping after the message has been built (update_total_msg_stat
\* to the end of do_send_message).
\* The account marked whatever is reserved.
DeleteAccount_IgnoresReserve(mode, a) ==
    HasBoth(mode, ALL_BALANCE, DELETE_IF_EMPTY) \/ a.ctx.delete_account

\* if mode.contains(DELETE_MASK) { delete_account = reserved_balance.is_zero() }
DeleteAccount(mode, a) ==
    IF HasBoth(mode, ALL_BALANCE, DELETE_IF_EMPTY)
    THEN CCIsZero(a.ctx.reserved_balance) ELSE a.ctx.delete_account

\* The message recorded without advancing the logical time.
RecordSent_SameLt(a, mode, msg, layout, stats, prices, fwd_fee, value) ==
    [a EXCEPT !.res.action_phase.messages_created = @ + 1,
              !.ctx.out_msgs =
                  Append(@, [kind |-> msg.kind, id |-> msg.id, value |-> value,
                             fwd_fee |-> 0, created_lt |-> a.ctx.end_lt,
                             init_to_cell |-> layout.init_to_cell,
                             body_to_cell |-> layout.body_to_cell,
                             stats |-> stats]),
              !.ctx.delete_account = DeleteAccount(mode, a)]

\* The message recorded without counting it.
RecordSent_Uncounted(a, mode, msg, layout, stats, prices, fwd_fee, value) ==
    [a EXCEPT !.ctx.end_lt = @ + 1,
              !.ctx.out_msgs =
                  Append(@, [kind |-> msg.kind, id |-> msg.id, value |-> value,
                             fwd_fee |-> 0, created_lt |-> a.ctx.end_lt,
                             init_to_cell |-> layout.init_to_cell,
                             body_to_cell |-> layout.body_to_cell,
                             stats |-> stats]),
              !.ctx.delete_account = DeleteAccount(mode, a)]

RecordSent(a, mode, msg, layout, stats, prices, fwd_fee, value) ==
    LET fees_collected == FeesCollected(msg, prices, fwd_fee)
        root_bits == msg.info_bits + layout.init.bits + layout.body.bits
        out == [kind |-> msg.kind, id |-> msg.id, value |-> value,
                fwd_fee |-> IF msg.kind = "Int" THEN fwd_fee - fees_collected ELSE 0,
                created_lt |-> a.ctx.end_lt,
                init_to_cell |-> layout.init_to_cell,
                body_to_cell |-> layout.body_to_cell,
                stats |-> stats]
    IN  [a EXCEPT
            !.res.action_phase.total_message_size =
                update_total_msg_stat(@, stats, root_bits),
            !.res.action_phase.messages_created = @ + 1,
            !.ctx.end_lt = @ + 1,
            !.ctx.out_msgs = Append(@, out),
            !.res.action_phase.total_action_fees = Max(@, 0) + fees_collected,
            !.res.action_phase.total_fwd_fees = Max(@, 0) + fwd_fee,
            !.ctx.delete_account = DeleteAccount(mode, a)]

\* "Finalize message" for an internal message.
\* The value of the inbound message left as it is.
ClearMessageBalance_Keeps(mode, a) == a.ctx.received_message

\* "Clear message balance if it was used."
ClearMessageBalance(mode, a) ==
    IF a.ctx.received_message.present
          /\ (HasFlag(mode, ALL_BALANCE) \/ HasFlag(mode, WITH_REMAINING_BALANCE))
    THEN [a.ctx.received_message EXCEPT !.balance_remaining = ZeroCC]
    ELSE a.ctx.received_message

FinalizeInt(mode, msg, a, layout, skip_invalid, fine_per_cell, max_cell_count,
            stats, prices, fwd_fee, gas_fees) ==
    LET fail(e) == check_skip_invalid_fine(skip_invalid, e, fine_per_cell,
                                           max_cell_count, stats.cell_count, a)
        rv == rewrite_message_value(a, msg.value, mode, fwd_fee, gas_fees)
        rb == a.ctx.remaining_balance
        next == MessageRewriteNext(layout.rewrite)
        a1 == [a EXCEPT
                 !.ctx.received_message = ClearMessageBalance(mode, a),
                 !.ctx.remaining_balance =
                     CC(rb.tokens - rv.total, rb.other - rv.value.other)]
    IN  IF ~rv.ok THEN fail(NotEnoughBalance)
        ELSE IF rb.tokens < rv.total THEN fail(NotEnoughBalance)
        ELSE IF rb.other < rv.value.other THEN fail(NotEnoughExtraBalance)
        ELSE IF BuildOverflows(msg, rv.value, layout)
        THEN IF next # "Exhausted" THEN Rewrite(next, a) ELSE fail(FailedToFitMessage)
        ELSE Sent(RecordSent(a1, mode, msg, layout, stats, prices, fwd_fee, rv.value))

\* "Finalize message" for an external outbound message.
FinalizeExtOut(mode, msg, a, layout, skip_invalid, fine_per_cell, max_cell_count,
               stats, prices, fwd_fee) ==
    LET fail(e) == check_skip_invalid_fine(skip_invalid, e, fine_per_cell,
                                           max_cell_count, stats.cell_count, a)
        next == MessageRewriteNext(layout.rewrite)
        a1 == [a EXCEPT !.ctx.remaining_balance.tokens = @ - fwd_fee]
    IN  IF a.ctx.remaining_balance.tokens < fwd_fee THEN fail(NotEnoughBalance)
        ELSE IF BuildOverflows(msg, ZeroCC, layout)
        THEN IF next # "Exhausted" THEN Rewrite(next, a) ELSE fail(FailedToFitMessage)
        ELSE Sent(RecordSent(a1, mode, msg, layout, stats, prices, fwd_fee, ZeroCC))


\* The funds the fine per cell is checked against ("Compute fine per cell"),
\* or an error when the value of a WITH_REMAINING_BALANCE message underflows.
FineFunds(mode, msg, a, gas_fees) ==
    LET funds == a.ctx.remaining_balance.tokens
        rm == a.ctx.received_message
        capped == msg.kind = "Int" /\ ~HasFlag(mode, ALL_BALANCE)
                      /\ ~HasFlag(mode, PAY_FEE_SEPARATELY)
        with_rem == HasFlag(mode, WITH_REMAINING_BALANCE)
        new_funds == IF with_rem
                     THEN msg.value.tokens
                              + (IF rm.present THEN rm.balance_remaining.tokens ELSE 0)
                              - gas_fees - a.res.action_fine
                     ELSE msg.value.tokens
        underflow == with_rem
                       /\ \/ msg.value.tokens
                               + (IF rm.present THEN rm.balance_remaining.tokens ELSE 0)
                               < gas_fees
                          \/ new_funds < 0
    IN  IF ~capped THEN [ok |-> TRUE, funds |-> funds]
        ELSE IF underflow THEN [ok |-> FALSE, funds |-> 0]
        ELSE [ok |-> TRUE, funds |-> Min(funds, new_funds)]

\* The configured limit kept whatever the funds are.
MaxCellCount_Unlowered(max_msg_cells, fine_per_cell, funds) == max_msg_cells

\* max_cell_count: the configured limit, lowered to what `funds` can pay for.
MaxCellCount(max_msg_cells, fine_per_cell, funds) ==
    IF funds < max_msg_cells * fine_per_cell
    THEN funds \div fine_per_cell
    ELSE max_msg_cells

\* "Compute fine per cell", "Compute size of the message" and "Compute
\* forwarding fees": whether the funds could be computed, the prices, the fine
\* per cell, the cell limit of the walk, the walk and the forwarding fee.
MessageStats(es, mode, msg, a, layout, use_mc_prices, gas_fees) ==
    LET prices == fwd_prices(es.config, use_mc_prices)
        max_msg_cells == es.config.size_limits.max_msg_cells
        fine_per_cell == IF es.is_special THEN 0 ELSE FinePerCell(prices)
        ff == IF es.is_special
              THEN [ok |-> TRUE, funds |-> 0]
              ELSE FineFunds(mode, msg, a, gas_fees)
        max_cell_count == IF es.is_special THEN max_msg_cells
                          ELSE MaxCellCount(max_msg_cells, fine_per_cell, ff.funds)
        walk == AddCells([ok |-> TRUE, cells |-> 0, bits |-> 0],
                         MsgChildren(msg, layout.init, layout.body), 1,
                         [bit_count |-> es.config.size_limits.max_msg_bits,
                          cell_count |-> max_cell_count])
        stats == [bit_count |-> walk.bits, cell_count |-> walk.cells]
    IN  [funds_ok |-> ff.ok, funds |-> ff.funds, prices |-> prices,
         fine_per_cell |-> fine_per_cell, max_cell_count |-> max_cell_count,
         walk |-> walk, stats |-> stats,
         fwd_fee |-> IF es.is_special THEN 0 ELSE compute_fwd_fee(prices, stats)]

\* do_send_message from "Compute fine per cell" on: `use_mc_prices` and the
\* layout are known, the addresses have been accepted.
SendChecked(es, mode, msg, a, layout, use_mc_prices, gas_fees) ==
    LET skip_invalid == HasFlag(mode, IGNORE_ERROR)
        ms == MessageStats(es, mode, msg, a, layout, use_mc_prices, gas_fees)
    IN  IF ~ms.funds_ok THEN check_skip_invalid(skip_invalid, NotEnoughBalance, a)
        ELSE IF ~ms.walk.ok
        THEN check_skip_invalid_fine(skip_invalid, MessageOutOfLimits,
                                     ms.fine_per_cell, ms.max_cell_count,
                                     ms.walk.cells, a)
        ELSE IF msg.kind = "Int"
        THEN FinalizeInt(mode, msg, a, layout, skip_invalid, ms.fine_per_cell,
                         ms.max_cell_count, ms.stats, ms.prices, ms.fwd_fee, gas_fees)
        ELSE FinalizeExtOut(mode, msg, a, layout, skip_invalid, ms.fine_per_cell,
                            ms.max_cell_count, ms.stats, ms.prices, ms.fwd_fee)

\* "Check info": source and destination addresses, mode of an external message.
\* The destination address of an internal message accepted unchecked.
CheckInfo_AnyDst(es, mode, msg, a, layout, gas_fees) ==
    IF msg.kind = "Int"
    THEN IF ~msg.src_ok
         THEN Failed([a EXCEPT !.res.action_phase.result_code = InvalidSrcAddr])
         ELSE SendChecked(es, mode, msg, a, layout,
                          es.address_is_masterchain \/ msg.dst = "mc", gas_fees)
    ELSE IF BitAndNot(mode, EXT_MSG_MASK, 1) # 0 THEN Failed(a)
         ELSE IF ~msg.src_ok
         THEN Failed([a EXCEPT !.res.action_phase.result_code = InvalidSrcAddr])
         ELSE SendChecked(es, mode, msg, a, layout,
                          es.address_is_masterchain, gas_fees)

CheckInfo(es, mode, msg, a, layout, gas_fees) ==
    LET skip_invalid == HasFlag(mode, IGNORE_ERROR)
        bad_src == Failed([a EXCEPT !.res.action_phase.result_code = InvalidSrcAddr])
    IN  IF msg.kind = "Int"
        THEN IF ~msg.src_ok THEN bad_src
             ELSE IF msg.dst = "bad"
             THEN check_skip_invalid(skip_invalid, InvalidDstAddr, a)
             ELSE SendChecked(es, mode, msg, a, layout,
                              es.address_is_masterchain \/ msg.dst = "mc", gas_fees)
        ELSE IF BitAndNot(mode, EXT_MSG_MASK, 1) # 0 THEN Failed(a)
             ELSE IF ~msg.src_ok THEN bad_src
             ELSE SendChecked(es, mode, msg, a, layout,
                              es.address_is_masterchain, gas_fees)

\* need_bounce_on_fail is raised first, whatever else the mode holds.
ApplyBounceFlag(mode, a) ==
    IF HasFlag(mode, BOUNCE_ON_ERROR)
    THEN [a EXCEPT !.ctx.need_bounce_on_fail = TRUE] ELSE a

\* Only the forbidden combination rejected, unknown bits let through.
SendModeInvalid_CombinationOnly(mode) ==
    HasBoth(mode, ALL_BALANCE, WITH_REMAINING_BALANCE)

\* mode.bits() & !MASK != 0 || mode.contains(INVALID_MASK)
SendModeInvalid(mode) ==
    \/ BitAndNot(mode, SEND_MSG_MASK, 1) # 0
    \/ HasBoth(mode, ALL_BALANCE, WITH_REMAINING_BALANCE)

\* One call of do_send_message with the layout `rewrite`.
do_send_message(es, mode, out_msg, a0, rewrite, gas_fees) ==
    LET a == ApplyBounceFlag(mode, a0) IN
    IF SendModeInvalid(mode) THEN Failed(a)
    ELSE IF out_msg.exotic THEN Failed(a)
    ELSE IF ~out_msg.parse_ok \/ out_msg.trailing THEN Failed(a)
    ELSE CheckInfo(es, mode, out_msg, a, ApplyRewrite(out_msg, rewrite), gas_fees)

-----------------------------------------------------------------------------
(* do_set_code, do_reserve_currency, do_change_library                     *)

Done(a) == [ok |-> TRUE, a |-> a]
Fail(a) == [ok |-> FALSE, a |-> a]
FailWith(e, a) == Fail([a EXCEPT !.res.action_phase.result_code = e])

\* The code replaced only by the first special action.
do_set_code_FirstWins(new_code, a) ==
    [ok |-> TRUE,
     a |-> [a EXCEPT !.ctx.new_state.code =
                         IF a.res.action_phase.special_actions = 0
                         THEN new_code ELSE @,
                     !.res.action_phase.special_actions = @ + 1]]

do_set_code(new_code, a) ==
    Done([a EXCEPT !.ctx.new_state.code = new_code,
                   !.res.action_phase.special_actions = @ + 1])

\* The amount to reserve after WITH_ORIGINAL_BALANCE / REVERSE, or an error.
\* The value always added to the original balance, REVERSE disregarded.
ReserveTarget_NeverReversed(mode, reserve, original_balance) ==
    IF HasFlag(mode, WITH_ORIGINAL_BALANCE)
    THEN [ok |-> TRUE, value |-> CCAdd(reserve, original_balance)]
    ELSE IF HasFlag(mode, REVERSE) THEN [ok |-> FALSE, value |-> reserve]
    ELSE [ok |-> TRUE, value |-> reserve]

ReserveTarget(mode, reserve, original_balance) ==
    IF HasFlag(mode, WITH_ORIGINAL_BALANCE)
    THEN IF HasFlag(mode, REVERSE)
         THEN IF original_balance.tokens >= reserve.tokens
                   /\ original_balance.other >= reserve.other
              THEN [ok |-> TRUE,
                    value |-> CC(original_balance.tokens - reserve.tokens,
                                 original_balance.other - reserve.other)]
              ELSE [ok |-> FALSE, value |-> reserve]
         ELSE [ok |-> TRUE, value |-> CCAdd(reserve, original_balance)]
    ELSE IF HasFlag(mode, REVERSE) THEN [ok |-> FALSE, value |-> reserve]
    ELSE [ok |-> TRUE, value |-> reserve]

\* CurrencyCollection::checked_clamp
checked_clamp(value, other) ==
    CC(Min(value.tokens, other.tokens), Min(value.other, other.other))

\* The extra currencies reserved without looking at what remains of them.
\* do_reserve_currency with ALL_BUT reserving what the plain mode reserves.
do_reserve_currency_AllButKeeps(mode, value, a0, original_balance) ==
    LET a == ApplyBounceFlag(mode, a0)
        target == ReserveTarget(mode, value, original_balance)
        rb == a.ctx.remaining_balance
        reserve == IF HasFlag(mode, IGNORE_ERROR)
                   THEN checked_clamp(target.value, rb) ELSE target.value
    IN  IF BitAndNot(mode, RESERVE_MASK, 1) # 0 THEN Fail(a)
        ELSE IF ~target.ok THEN Fail(a)
        ELSE IF rb.tokens < reserve.tokens THEN FailWith(NotEnoughBalance, a)
        ELSE IF rb.other < reserve.other THEN FailWith(NotEnoughExtraBalance, a)
        ELSE Done([a EXCEPT
                     !.ctx.remaining_balance =
                         IF HasFlag(mode, ALL_BUT) THEN reserve
                         ELSE CC(rb.tokens - reserve.tokens, rb.other - reserve.other),
                     !.ctx.reserved_balance = CCAdd(@, reserve),
                     !.res.action_phase.special_actions = @ + 1])

do_reserve_currency_TokensOnly(mode, value, a0, original_balance) ==
    LET a == ApplyBounceFlag(mode, a0)
        target == ReserveTarget(mode, value, original_balance)
        rb == a.ctx.remaining_balance
        reserve == IF HasFlag(mode, IGNORE_ERROR)
                   THEN checked_clamp(target.value, rb) ELSE target.value
        new_balance == CC(rb.tokens - reserve.tokens, rb.other - reserve.other)
        all_but == HasFlag(mode, ALL_BUT)
    IN  IF BitAndNot(mode, RESERVE_MASK, 1) # 0 THEN Fail(a)
        ELSE IF ~target.ok THEN Fail(a)
        ELSE IF rb.tokens < reserve.tokens THEN FailWith(NotEnoughBalance, a)
        ELSE Done([a EXCEPT
                     !.ctx.remaining_balance = IF all_but THEN reserve ELSE new_balance,
                     !.ctx.reserved_balance =
                         CCAdd(@, IF all_but THEN new_balance ELSE reserve),
                     !.res.action_phase.special_actions = @ + 1])

do_reserve_currency(mode, value, a0, original_balance) ==
    LET a == ApplyBounceFlag(mode, a0)
        target == ReserveTarget(mode, value, original_balance)
        rb == a.ctx.remaining_balance
        reserve == IF HasFlag(mode, IGNORE_ERROR)
                   THEN checked_clamp(target.value, rb) ELSE target.value
        new_balance == CC(rb.tokens - reserve.tokens, rb.other - reserve.other)
        all_but == HasFlag(mode, ALL_BUT)
    IN  IF BitAndNot(mode, RESERVE_MASK, 1) # 0 THEN Fail(a)
        ELSE IF ~target.ok THEN Fail(a)
        ELSE IF rb.tokens < reserve.tokens THEN FailWith(NotEnoughBalance, a)
        ELSE IF rb.other < reserve.other THEN FailWith(NotEnoughExtraBalance, a)
        ELSE Done([a EXCEPT
                     !.ctx.remaining_balance = IF all_but THEN reserve ELSE new_balance,
                     !.ctx.reserved_balance =
                         CCAdd(@, IF all_but THEN new_balance ELSE reserve),
                     !.res.action_phase.special_actions = @ + 1])

\* libraries.get(hash): the entry stored under `hash`, if the dictionary can be read
LibEntries(libraries, hash) == {e \in libraries.entries : e.hash = hash}

\* The dictionary read before the library is looked at.
do_change_library_DictFirst(es, mode, lib, a0) ==
    LET a == ApplyBounceFlag(mode, a0)
        add_public == HasFlag(mode, ADD_PUBLIC)
        libs == a.ctx.new_state.libraries
        same == \E e \in LibEntries(libs, lib.hash) : e.public = add_public
        entry == [hash |-> lib.hash, public |-> add_public, cells |-> lib.cells]
        counted == [a EXCEPT !.res.action_phase.special_actions = @ + 1]
    IN  IF HasBoth(mode, ADD_PRIVATE, ADD_PUBLIC) THEN Fail(a)
        ELSE IF ~libs.valid THEN FailWith(InvalidLibrariesDict, a)
        ELSE IF add_public \/ HasFlag(mode, ADD_PRIVATE)
        THEN IF same THEN Done(counted)
             ELSE IF lib.kind # "Cell" THEN FailWith(NoLibCode, a)
             ELSE IF lib.cells > es.config.size_limits.max_library_cells
             THEN FailWith(LibOutOfLimits, a)
             ELSE Done([counted EXCEPT !.ctx.new_state.libraries.entries =
                            {e \in @ : e.hash # lib.hash} \cup {entry}])
        ELSE Done([counted EXCEPT !.ctx.new_state.libraries.entries =
                       {e \in @ : e.hash # lib.hash}])

do_change_library(es, mode, lib, a0) ==
    LET a == ApplyBounceFlag(mode, a0)
        add_public == HasFlag(mode, ADD_PUBLIC)
        libs == a.ctx.new_state.libraries
        same == libs.valid
                  /\ \E e \in LibEntries(libs, lib.hash) : e.public = add_public
        entry == [hash |-> lib.hash, public |-> add_public, cells |-> lib.cells]
        counted == [a EXCEPT !.res.action_phase.special_actions = @ + 1]
    IN  IF HasBoth(mode, ADD_PRIVATE, ADD_PUBLIC) THEN Fail(a)
        ELSE IF add_public \/ HasFlag(mode, ADD_PRIVATE)
        THEN IF same THEN Done(counted)
             ELSE IF lib.kind # "Cell" THEN FailWith(NoLibCode, a)
             ELSE IF lib.cells > es.config.size_limits.max_library_cells
             THEN FailWith(LibOutOfLimits, a)
             ELSE IF ~libs.valid THEN FailWith(InvalidLibrariesDict, a)
             ELSE Done([counted EXCEPT !.ctx.new_state.libraries.entries =
                            {e \in @ : e.hash # lib.hash} \cup {entry}])
        ELSE IF ~libs.valid THEN FailWith(InvalidLibrariesDict, a)
        ELSE Done([counted EXCEPT !.ctx.new_state.libraries.entries =
                       {e \in @ : e.hash # lib.hash}])

-----------------------------------------------------------------------------
(* ActionContext::apply_fine_on_error and the state limits                 *)

\* The fine applied without the reset of the forwarding fees.
apply_fine_on_error_KeepsFwdFees(a, balance, total_fees, charge_action_fees) ==
    LET fine == a.res.action_fine
                  + (IF charge_action_fees
                     THEN Max(a.res.action_phase.total_action_fees, 0) ELSE 0)
        a1 == [a EXCEPT !.res.action_fine = fine,
                        !.res.action_phase.total_action_fees =
                            IF fine # 0 THEN fine ELSE None]
    IN  IF balance.tokens < fine
        THEN [ok |-> FALSE, a |-> a1, balance |-> balance, total_fees |-> total_fees]
        ELSE [ok |-> TRUE, a |-> a1,
              balance |-> [balance EXCEPT !.tokens = @ - fine],
              total_fees |-> total_fees + fine]

\* The fine replaced by the collected action fees instead of raised by them.
apply_fine_on_error_Replaces(a, balance, total_fees, charge_action_fees) ==
    LET fine == IF charge_action_fees
                THEN Max(a.res.action_phase.total_action_fees, 0)
                ELSE a.res.action_fine
        a1 == [a EXCEPT !.res.action_fine = fine,
                        !.res.action_phase.total_fwd_fees = None,
                        !.res.action_phase.total_action_fees =
                            IF fine # 0 THEN fine ELSE None]
    IN  IF balance.tokens < fine
        THEN [ok |-> FALSE, a |-> a1, balance |-> balance, total_fees |-> total_fees]
        ELSE [ok |-> TRUE, a |-> a1,
              balance |-> [balance EXCEPT !.tokens = @ - fine],
              total_fees |-> total_fees + fine]

\* Returns the updated pair `a`, balance and total_fees; ok = FALSE stands
\* for the Err of a failed checked subtraction, which leaves its operand.
apply_fine_on_error(a, balance, total_fees, charge_action_fees) ==
    LET fine == a.res.action_fine
                  + (IF charge_action_fees
                     THEN Max(a.res.action_phase.total_action_fees, 0) ELSE 0)
        a1 == [a EXCEPT !.res.action_fine = fine,
                        !.res.action_phase.total_fwd_fees = None,
                        !.res.action_phase.total_action_fees =
                            IF fine # 0 THEN fine ELSE None]
    IN  IF balance.tokens < fine
        THEN [ok |-> FALSE, a |-> a1, balance |-> balance, total_fees |-> total_fees]
        ELSE [ok |-> TRUE, a |-> a1,
              balance |-> [balance EXCEPT !.tokens = @ - fine],
              total_fees |-> total_fees + fine]

\* StateInit: code, the size of the data tree, the libraries dictionary.
StateInit(code, data_cells, libraries) ==
    [code |-> code, data_cells |-> data_cells, libraries |-> libraries]

Libraries(valid, entries) == [valid |-> valid, entries |-> entries]

RECURSIVE LibCells(_)
LibCells(entries) ==
    IF entries = {} THEN 0
    ELSE LET e == CHOOSE x \in entries : TRUE
         IN  e.cells + LibCells(entries \ {e})

\* Cells of the state: code, data and library trees.
StateCells(state) ==
    state.code.cells + state.data_cells + LibCells(state.libraries.entries)

\* check_state_limits: the storage walker over code, data and libraries.
check_state_limits(new_state, limits) ==
    IF StateCells(new_state) > limits.max_acc_state_cells THEN "Exceeds" ELSE "Fits"

\* check_state_limits_diff: nothing to check when the state did not change.
check_state_limits_diff(current_state, new_state, limits) ==
    IF current_state = new_state THEN "Unchanged"
    ELSE check_state_limits(new_state, limits)

-----------------------------------------------------------------------------
(* action_phase                                                            *)

\* ActionPhase as created at the beginning of action_phase (the hash of the
\* action list is not modelled).
ActionPhaseInit ==
    [success |-> FALSE, valid |-> FALSE, no_funds |-> FALSE,
     status_change |-> "Unchanged", total_fwd_fees |-> None,
     total_action_fees |-> None, result_code |-> -1, result_arg |-> None,
     total_actions |-> 0, special_actions |-> 0, skipped_actions |-> 0,
     messages_created |-> 0, total_message_size |-> [bits |-> 0, cells |-> 0]]

ActionPhaseFullInit ==
    [action_phase |-> ActionPhaseInit, action_fine |-> 0,
     state_exceeds_limits |-> FALSE, bounce |-> FALSE]

\* ActionContext as created before the execution loop, with the cursor of
\* the loops: the cell `actions` the walk is at (its place in the chain),
\* `action_idx`, `list`, `parsed_list` and the pending `rewrite`.
ActionContextInit(received_message, balance, new_state, end_lt, list, parsed_list) ==
    [need_bounce_on_fail |-> FALSE, received_message |-> received_message,
     remaining_balance |-> balance, reserved_balance |-> ZeroCC,
     new_state |-> new_state, end_lt |-> end_lt, out_msgs |-> <<>>,
     delete_account |-> FALSE,
     actions |-> 0, list |-> list, parsed_list |-> parsed_list, action_idx |-> 0,
     rewrite |-> "None"]

NoReceivedMessage == [present |-> FALSE, balance_remaining |-> ZeroCC]

\* The locals of action_phase on entry: `actions` is at the head of the list.
NoContext ==
    [ActionContextInit(NoReceivedMessage, ZeroCC,
                       StateInit(NoCode, 0, Libraries(TRUE, {})), 0, <<>>, <<>>)
        EXCEPT !.actions = 1]

\* "Unpack actions list.": one iteration of the loop.
UnpackActions ==
    /\ pc = "start"
    /\ LET actions == inp.actions[ctx.actions]
           w == WalkStep(actions, ctx.action_idx)
       IN  CASE w.kind = "continue" ->
                  /\ ctx' = [ctx EXCEPT !.list = Append(@, actions.body),
                                        !.actions = @ + 1,
                                        !.action_idx = w.arg]
                  /\ res' = res
                  /\ pc' = "start"
             [] w.kind = "break" ->
                  /\ res' = [res EXCEPT !.action_phase.total_actions = ctx.action_idx]
                  /\ ctx' = [ctx EXCEPT !.action_idx = 0]
                  /\ pc' = "parse"
             [] OTHER ->
                  /\ res' = [res EXCEPT !.action_phase.result_code = w.code,
                                        !.action_phase.result_arg = w.arg,
                                        !.action_phase.valid = FALSE]
                  /\ ctx' = ctx
                  /\ pc' = "done"
    /\ UNCHANGED <<st, inp, hist, vm>>

\* "Parse actions.": one iteration of the loop over the reversed list.
ParseActions ==
    /\ pc = "parse"
    /\ ctx.action_idx < Len(ctx.list)
    /\ LET cs == ParseOrder(ctx.list)[ctx.action_idx + 1]
           r == ParseOne(cs)
       IN  CASE r = "ok" ->
                  /\ ctx' = [ctx EXCEPT !.parsed_list = Append(@, cs.action),
                                        !.action_idx = @ + 1]
                  /\ res' = res
                  /\ pc' = "parse"
             [] r = "skip" ->
                  /\ ctx' = [ctx EXCEPT !.parsed_list = Append(@, NoAction),
                                        !.action_idx = @ + 1]
                  /\ res' = [res EXCEPT !.action_phase.skipped_actions = @ + 1]
                  /\ pc' = "parse"
             [] OTHER ->
                  /\ res' = [res EXCEPT !.bounce = @ \/ (r = "bounce"),
                                        !.action_phase.result_code = ActionInvalid,
                                        !.action_phase.result_arg = ctx.action_idx,
                                        !.action_phase.valid = FALSE]
                  /\ ctx' = ctx
                  /\ pc' = "done"
    /\ UNCHANGED <<st, inp, hist, vm>>

\* "Action list itself is ok.", then the creation of the ActionContext.
ListValid ==
    /\ pc = "parse"
    /\ ctx.action_idx = Len(ctx.list)
    /\ res' = [res EXCEPT !.action_phase.valid = TRUE]
    /\ ctx' = ActionContextInit(inp.received_message, st.balance, inp.new_state,
                                st.end_lt, ctx.list, ctx.parsed_list)
    /\ pc' = "exec"
    /\ UNCHANGED <<st, inp, hist, vm>>

\* The action the execution loop is at.
CurrentAction == ctx.parsed_list[ctx.action_idx + 1]

AtAction(type) ==
    /\ pc = "exec"
    /\ ctx.action_idx < Len(ctx.parsed_list)
    /\ CurrentAction.type = type

\* The pair `a` at the call of an action: the per-action fields are reset
\* before the first call made for the action.
\* The start of an action that leaves need_bounce_on_fail as it is.
BeginAction_KeepsFlag ==
    IF ctx.rewrite = "None"
    THEN [ctx |-> ctx,
          res |-> [res EXCEPT !.action_phase.result_code = -1,
                              !.action_phase.result_arg = ctx.action_idx]]
    ELSE [ctx |-> ctx, res |-> res]

BeginAction ==
    IF ctx.rewrite = "None"
    THEN [ctx |-> [ctx EXCEPT !.need_bounce_on_fail = FALSE],
          res |-> [res EXCEPT !.action_phase.result_code = -1,
                              !.action_phase.result_arg = ctx.action_idx]]
    ELSE [ctx |-> ctx, res |-> res]

\* result_code after `if let Err(ActionFailed) = action`
\* The result code of a failed action left as the action set it.
FailureCode_AsSet(result_code) == result_code

FailureCode(result_code) ==
    IF result_code = -1 THEN ActionInvalid ELSE result_code

\* no_funds raised for the native currency only.
FailureNoFunds_TokensOnly(result_code) == result_code = NotEnoughBalance

\* no_funds after a failed action
FailureNoFunds(result_code) ==
    result_code = NotEnoughBalance \/ result_code = NotEnoughExtraBalance

\* The log of the actions the loop has called, kept in hist.
Called == IF ctx.rewrite = "None" THEN Append(hist.executed, CurrentAction)
          ELSE hist.executed

\* The part of the pair `a` kept in the log: the lists are left out.
Snapshot(a) == [ctx |-> [a.ctx EXCEPT !.list = <<>>, !.parsed_list = <<>>],
                res |-> a.res]

\* The pair `a` at the first call made for the action the loop is at.
CallPre == IF ctx.rewrite = "None" THEN Snapshot(BeginAction) ELSE hist.pre

\* The `rewrite` arguments of the calls made for the action the loop is at.
CallsNow == IF ctx.rewrite = "None" THEN <<ctx.rewrite>>
            ELSE Append(hist.calls, ctx.rewrite)

\* The log entry of an action that returned: the action, its index, the pair
\* `a` before its first call and as it returned, Ok or Err, and the calls.
Returned(a, ok) ==
    [action |-> CurrentAction, idx |-> ctx.action_idx, pre |-> CallPre,
     post |-> Snapshot(a), ok |-> ok, calls |-> CallsNow]

\* The action returned Ok(()): go on with the next element.
ActionDone(a) ==
    /\ ctx' = [a.ctx EXCEPT !.action_idx = @ + 1, !.rewrite = "None"]
    /\ res' = a.res
    /\ hist' = [hist EXCEPT !.executed = Called,
                            !.fines = Append(@, a.res.action_fine),
                            !.log = Append(@, Returned(a, TRUE))]
    /\ pc' = "exec"
    /\ UNCHANGED <<st, inp, vm>>

\* The action returned Err(ActionFailed): lines "if let Err(ActionFailed)".
ActionFailed(a0) ==
    LET code == FailureCode(a0.res.action_phase.result_code)
        a == [a0 EXCEPT !.res.action_phase.result_code = code,
                        !.res.action_phase.no_funds =
                            IF FailureNoFunds(code) THEN TRUE ELSE @]
        f == apply_fine_on_error(a, st.balance, st.total_fees,
                                 st.charge_action_fees_on_fail)
    IN  /\ ctx' = f.a.ctx
        /\ hist' = [hist EXCEPT !.executed = Called,
                                !.fines = Append(@, f.a.res.action_fine),
                                !.failed_at = ctx.action_idx,
                                !.code_set = a0.res.action_phase.result_code,
                                !.log = Append(@, Returned(a0, FALSE))]
        /\ st' = [st EXCEPT !.balance = f.balance, !.total_fees = f.total_fees]
        /\ IF f.ok
           THEN /\ res' = [f.a.res EXCEPT !.bounce = @ \/ f.a.ctx.need_bounce_on_fail]
                /\ pc' = "done"
           ELSE /\ res' = f.a.res
                /\ pc' = "error"
        /\ UNCHANGED <<inp, vm>>

\* `let Some(action) = action else { continue }`
SkipAction ==
    /\ AtAction("None")
    /\ ctx' = [ctx EXCEPT !.action_idx = @ + 1]
    /\ pc' = "exec"
    /\ UNCHANGED <<st, inp, res, hist, vm>>

\* One call of do_send_message from the rewrite loop.
ExecSendMsg ==
    /\ AtAction("SendMsg")
    /\ LET r == do_send_message(st, CurrentAction.mode, CurrentAction.msg,
                                BeginAction, ctx.rewrite, inp.gas_fees)
       IN  CASE r.result = "Sent" -> ActionDone(r.a)
             [] r.result = "Rewrite" ->
                  /\ ctx' = [r.a.ctx EXCEPT !.rewrite = r.rewrite]
                  /\ res' = r.a.res
                  /\ hist' = [hist EXCEPT !.executed = Called,
                                          !.pre = CallPre,
                                          !.calls = CallsNow]
                  /\ pc' = "exec"
                  /\ UNCHANGED <<st, inp, vm>>
             [] OTHER -> ActionFailed(r.a)

ExecSetCode ==
    /\ AtAction("SetCode")
    /\ ActionDone(do_set_code(CurrentAction.code, BeginAction).a)

ExecReserveCurrency ==
    /\ AtAction("ReserveCurrency")
    /\ LET r == do_reserve_currency(CurrentAction.mode, CurrentAction.value,
                                    BeginAction, inp.original_balance)
       IN  IF r.ok THEN ActionDone(r.a) ELSE ActionFailed(r.a)

ExecChangeLibrary ==
    /\ AtAction("ChangeLibrary")
    /\ LET r == do_change_library(st, CurrentAction.mode, CurrentAction.lib,
                                  BeginAction)
       IN  IF r.ok THEN ActionDone(r.a) ELSE ActionFailed(r.a)

\* All actions have been executed.
AfterActions ==
    /\ pc = "exec"
    /\ ctx.action_idx = Len(ctx.parsed_list)

\* The check is made for every account, special or not.
StateLimitsCheck_SpecialToo ==
    IF st.state.status = "Active"
    THEN check_state_limits_diff(st.state.init, ctx.new_state, st.config.size_limits)
    ELSE check_state_limits(ctx.new_state, st.config.size_limits)

\* "Check that the new state does not exceed size limits."
StateLimitsCheck ==
    IF st.is_special THEN "Skipped"
    ELSE IF st.state.status = "Active"
    THEN check_state_limits_diff(st.state.init, ctx.new_state, st.config.size_limits)
    ELSE check_state_limits(ctx.new_state, st.config.size_limits)

\* The new state exceeds the limits: the fine is applied, the phase fails.
StateLimitsExceeded ==
    /\ AfterActions
    /\ StateLimitsCheck = "Exceeds"
    /\ LET f == apply_fine_on_error([ctx |-> ctx, res |-> res], st.balance,
                                    st.total_fees, st.charge_action_fees_on_fail)
       IN  /\ ctx' = f.a.ctx
           /\ st' = [st EXCEPT !.balance = f.balance, !.total_fees = f.total_fees]
           /\ hist' = [hist EXCEPT !.fines = Append(@, f.a.res.action_fine)]
           /\ IF f.ok
              THEN /\ res' = [f.a.res EXCEPT
                                !.bounce = @ \/ f.a.ctx.need_bounce_on_fail,
                                !.action_phase.result_code = StateOutOfLimits,
                                !.state_exceeds_limits = TRUE]
                   /\ pc' = "done"
              ELSE /\ res' = f.a.res
                   /\ pc' = "error"
    /\ UNCHANGED <<inp, vm>>

\* The reserved balance left where it was put aside.
Unreserve_Dropped(remaining_balance, reserved_balance) == remaining_balance

\* "Unreserve everything": remaining_balance += reserved_balance
Unreserve(remaining_balance, reserved_balance) ==
    CCAdd(remaining_balance, reserved_balance)

\* The tail of action_phase: the phase succeeds and its effects are applied.
CommitPhase ==
    /\ AfterActions
    /\ StateLimitsCheck # "Exceeds"
    /\ LET total_action_fees ==
               IF res.action_fine # 0
               THEN Max(res.action_phase.total_action_fees, 0) + res.action_fine
               ELSE res.action_phase.total_action_fees
           remaining_balance == Unreserve(ctx.remaining_balance, ctx.reserved_balance)
       IN  /\ res' = [res EXCEPT
                        !.action_phase.total_action_fees = total_action_fees,
                        !.action_phase.result_code = 0,
                        !.action_phase.result_arg = None,
                        !.action_phase.success = TRUE,
                        !.action_phase.status_change =
                            IF ctx.delete_account THEN "Deleted" ELSE @]
           /\ ctx' = [ctx EXCEPT !.remaining_balance = remaining_balance]
           /\ st' = [st EXCEPT
                       !.end_status = IF ctx.delete_account THEN "NotExists" ELSE @,
                       !.total_fees = @ + Max(total_action_fees, 0),
                       !.balance = remaining_balance,
                       !.out_msgs = ctx.out_msgs,
                       !.end_lt = ctx.end_lt,
                       !.state = [status |-> "Active", init |-> ctx.new_state]]
    /\ pc' = "done"
    /\ UNCHANGED <<inp, hist, vm>>

-----------------------------------------------------------------------------
(* Inputs of the action phase                                              *)

\* Blockchain config: forwarding prices of the base chain and of the
\* masterchain, size limits.
Config ==
    [fwd_prices |-> [lump_price |-> 4, bit_price |-> 128,
                     cell_price |-> 8 * 65536, first_frac |-> 21845],
     mc_fwd_prices |-> [lump_price |-> 10, bit_price |-> 256,
                        cell_price |-> 16 * 65536, first_frac |-> 21845],
     size_limits |-> [max_msg_bits |-> 2048, max_msg_cells |-> 4,
                      max_library_cells |-> 3, max_acc_state_cells |-> 10]]

\* The state of the account before the phase: code of 2 cells, data of one
\* cell, one public library.
AccountInit ==
    StateInit(Code(100, 2), 1,
              Libraries(TRUE, {[hash |-> 1, public |-> TRUE, cells |-> 2]}))

\* ExecutorState before the action phase.
Executor(balance, is_special, charge, masterchain, status) ==
    [balance |-> balance, total_fees |-> 7, end_lt |-> 100, out_msgs |-> <<>>,
     state |-> [status |-> status, init |-> AccountInit],
     end_status |-> "Active", is_special |-> is_special,
     charge_action_fees_on_fail |-> charge,
     address_is_masterchain |-> masterchain, config |-> Config]

\* ActionPhaseContext without the action list.
PhaseContext(received_message, original_balance, new_state) ==
    [received_message |-> received_message, original_balance |-> original_balance,
     new_state |-> new_state, gas_fees |-> 3]

Received(tokens) == [present |-> TRUE, balance_remaining |-> CC(tokens, 0)]

\* The executors and contexts the phase is run with.
Setups ==
    { [st |-> Executor(CC(1000, 5), FALSE, FALSE, FALSE, "Active"),
       inp |-> PhaseContext(Received(30), CC(1003, 5), AccountInit)],
      [st |-> Executor(CC(10, 0), FALSE, FALSE, FALSE, "Active"),
       inp |-> PhaseContext(NoReceivedMessage, CC(13, 0), AccountInit)],
      [st |-> Executor(CC(1000, 5), TRUE, FALSE, TRUE, "Active"),
       inp |-> PhaseContext(Received(30), CC(1003, 5), AccountInit)],
      [st |-> Executor(CC(1000, 5), FALSE, TRUE, FALSE, "Active"),
       inp |-> PhaseContext(Received(2), CC(950, 5), AccountInit)],
      [st |-> Executor(CC(40, 5), FALSE, TRUE, TRUE, "Uninit"),
       inp |-> PhaseContext(NoReceivedMessage, CC(43, 5),
                            [AccountInit EXCEPT !.libraries.valid = FALSE])] }

\* Messages; `i` is the content that tells the message apart.
PlainMsg(i, tokens) == Msg("Int", "base", CC(tokens, 0), NoInit, EmptyBody, i)
InitMsg(i, tokens) == Msg("Int", "base", CC(tokens, 0), InlineInit, EmptyBody, i)
LongBody == [to_cell |-> FALSE, bits |-> 500, refs |-> <<>>]
WideBody == [to_cell |-> FALSE, bits |-> 1, refs |-> <<Sub(5, 64)>>]
MidBody == [to_cell |-> FALSE, bits |-> 200, refs |-> <<>>]
BigInit == [bits |-> 300, refs |-> <<Sub(1, 16), Sub(1, 32)>>]
FlatInit == [bits |-> 450, refs |-> <<Sub(1, 16)>>]
\* a body whose two child cells hold more than max_msg_bits
HeavyBody == [to_cell |-> FALSE, bits |-> 1, refs |-> <<Sub(2, 3000)>>]
\* left$0 followed by 600 bits of data and a reference to an empty cell
RefBody == [to_cell |-> FALSE, bits |-> 601, refs |-> <<Sub(1, 0)>>]

\* The actions a contract installs as its first or second action.
HeadPool(i) ==
    { SendMsg(0, PlainMsg(i, 100)),
      SendMsg(PAY_FEE_SEPARATELY, InitMsg(i, 20)),
      SendMsg(ALL_BALANCE, PlainMsg(i, 0)),
      SendMsg(ALL_BALANCE + DELETE_IF_EMPTY, PlainMsg(i, 0)),
      SendMsg(WITH_REMAINING_BALANCE, PlainMsg(i, 5)),
      SendMsg(WITH_REMAINING_BALANCE + PAY_FEE_SEPARATELY, PlainMsg(i, 2)),
      SendMsg(WITH_REMAINING_BALANCE + IGNORE_ERROR, PlainMsg(i, 2)),
      SendMsg(IGNORE_ERROR, InitMsg(i, 2000)),
      SendMsg(0, InitMsg(i, 2000)),
      SendMsg(0, InitMsg(i, 5)),
      SendMsg(BOUNCE_ON_ERROR, Msg("Int", "bad", CC(1, 0), NoInit, EmptyBody, i)),
      SendMsg(0, Msg("Int", "mc", CC(30, 2), NoInit, EmptyBody, i)),
      SendMsg(0, Msg("Int", "base", CC(1, 9), NoInit, EmptyBody, i)),
      SendMsg(0, Msg("ExtOut", "base", ZeroCC, NoInit, EmptyBody, i)),
      SendMsg(ALL_BALANCE + WITH_REMAINING_BALANCE, PlainMsg(i, 1)),
      SendMsg(0, Msg("Int", "base", CC(50, 0), InlineInit, LongBody, i)),
      SendMsg(BOUNCE_ON_ERROR, Msg("Int", "base", CC(50, 0), NoInit, WideBody, i)),
      SendMsg(IGNORE_ERROR, [PlainMsg(i, 1) EXCEPT !.src_ok = FALSE]),
      SendMsg(0, Msg("Int", "base", CC(60, 0), BigInit, MidBody, i)),
      SendMsg(0, Msg("ExtOut", "base", ZeroCC, FlatInit, EmptyBody, i)),
      SendMsg(IGNORE_ERROR, Msg("ExtOut", "base", ZeroCC, FlatInit, EmptyBody, i)),
      SendMsg(0, Msg("Int", "base", CC(50, 0), NoInit, RefBody, i)),
      SendMsg(IGNORE_ERROR, Msg("Int", "base", CC(50, 0), NoInit, HeavyBody, i)),
      SendMsg(8 + IGNORE_ERROR, PlainMsg(i, 1)),
      SendMsg(ALL_BALANCE + WITH_REMAINING_BALANCE + IGNORE_ERROR, PlainMsg(i, 1)),
      SendMsg(WITH_REMAINING_BALANCE + IGNORE_ERROR,
              Msg("ExtOut", "base", ZeroCC, NoInit, EmptyBody, i)),
      SendMsg(IGNORE_ERROR, Msg("Int", "bad", CC(1, 0), NoInit, WideBody, i)),
      SetCode(Code(i, 1)),
      SetCode(Code(i, 12)),
      ReserveCurrency(0, CC(50, 3)),
      ReserveCurrency(ALL_BUT + BOUNCE_ON_ERROR, CC(50, 1)),
      ReserveCurrency(REVERSE, CC(1, 0)),
      ReserveCurrency(IGNORE_ERROR + WITH_ORIGINAL_BALANCE, CC(5, 1)),
      ReserveCurrency(WITH_ORIGINAL_BALANCE, CC(5, 0)),
      ReserveCurrency(WITH_ORIGINAL_BALANCE + REVERSE, CC(5, 3)),
      ReserveCurrency(32 + BOUNCE_ON_ERROR, CC(1, 0)),
      ReserveCurrency(IGNORE_ERROR + WITH_ORIGINAL_BALANCE + REVERSE, CC(5000, 0)),
      ChangeLibrary(ADD_PUBLIC, Lib("Cell", 2, 2)),
      ChangeLibrary(ADD_PRIVATE, Lib("Hash", 1, 0)),
      ChangeLibrary(ADD_PUBLIC, Lib("Hash", 3, 0)),
      ChangeLibrary(ADD_PUBLIC, Lib("Hash", 1, 0)),
      ChangeLibrary(ADD_PRIVATE + ADD_PUBLIC, Lib("Cell", 2, 2)),
      ChangeLibrary(ADD_PRIVATE + BOUNCE_ON_ERROR, Lib("Cell", 4, 5)),
      ChangeLibrary(0, Lib("Hash", 1, 0)) }

\* The actions a contract installs after the first two.
TailPool(i) ==
    { SendMsg(0, PlainMsg(i, 100)),
      SendMsg(PAY_FEE_SEPARATELY, InitMsg(i, 20)),
      SendMsg(IGNORE_ERROR, InitMsg(i, 2000)),
      SendMsg(BOUNCE_ON_ERROR, Msg("Int", "bad", CC(1, 0), NoInit, EmptyBody, i)),
      SendMsg(0, Msg("Int", "base", CC(50, 0), InlineInit, LongBody, i)),
      SetCode(Code(i, 12)),
      ReserveCurrency(0, CC(50, 0)),
      ChangeLibrary(ADD_PRIVATE, Lib("Hash", 3, 0)) }

\* The actions a contract installs as its i-th action.
ActionPool(i) == IF i <= 2 THEN HeadPool(i) ELSE TailPool(i)

\* Cell bodies that are not the serialization of one action.
RawPool(i) ==
    { RawBody(40, "SendMsg", IGNORE_ERROR),
      RawBody(48, "SendMsg", BOUNCE_ON_ERROR),
      RawBody(48, "SendMsg", 0),
      RawBody(32, "SendMsg", 0),
      RawBody(64, "Unknown", IGNORE_ERROR),
      RawBody(0, "Unknown", 0),
      TrailingBody(SetCode(Code(i, 1))),
      TrailingBody(SendMsg(IGNORE_ERROR + BOUNCE_ON_ERROR, PlainMsg(i, 1))),
      StoreOutAction(SendMsg(0, PlainMsg(i, 100))),
      StoreOutAction(SetCode(Code(i, 1))) }

RECURSIVE ActionSeqs(_)
\* The sequences of n actions whose i-th element is taken from ActionPool(i).
ActionSeqs(n) ==
    IF n = 0 THEN {<<>>}
    ELSE {Append(acts, x) : acts \in ActionSeqs(n - 1), x \in ActionPool(n)}

RECURSIVE RawSeqs(_)
\* The sequences of n cell bodies whose i-th element is taken from RawPool(i).
RawSeqs(n) ==
    IF n = 0 THEN {<<>>}
    ELSE {Append(bodies, x) : bodies \in RawSeqs(n - 1), x \in RawPool(n)}

RECURSIVE InstallAll(_, _)
\* c5 after add_action has been called for each action of `acts` in turn.
InstallAll(c5, acts) ==
    IF acts = <<>> THEN c5
    ELSE add_action(InstallAll(c5, SubSeq(acts, 1, Len(acts) - 1)), acts[Len(acts)])

\* The cells an action list may end in.
Bases == {EmptyCell, ExoticCell, NoRefCell}

\* A list of n SetCode actions.
LongList(n) == [i \in 1..n |-> StoreOutAction(SetCode(Code(1, 1)))]

-----------------------------------------------------------------------------
(* The VM: commit discipline of the run loop                               *)

MAX_DATA_DEPTH == 512

\* Gas the VM is started with, at most.
MaxGas == 4

\* VmException
CellOverflow == 8
Fatal == 12
OutOfGas == 13
InvalidOpcode == 6
StackUnderflow == 2

\* VmException::as_exit_code: the bitwise complement of the exception number
as_exit_code(exception) == -exception - 1

\* A cell as the commit check sees it.
VmCell(level, depth) == [level |-> level, depth |-> depth]

\* The cells the model puts into c4 and c5: at the depth limit, one deeper,
\* and of level 1.
VmCells ==
    {VmCell(0, MAX_DATA_DEPTH), VmCell(0, MAX_DATA_DEPTH + 1), VmCell(1, 0)}

\* Option<CommitedState>
NotCommited == [some |-> FALSE, c4 |-> VmCell(0, 0), c5 |-> VmCell(0, 0)]
CommitedState(c4, c5) == [some |-> TRUE, c4 |-> c4, c5 |-> c5]

\* A code slice: the opcodes its data bits still hold and the references
\* it still holds; the cells of a code tree hold one opcode each.
VmCode(ops, refs) == [ops |-> ops, refs |-> refs]
EmptyCode == VmCode(0, 0)
VmCodes == {VmCode(ops, refs) : ops \in 0..3, refs \in {0, 1}}

\* The slice of the cell the first reference of `code` points to.
FirstReference(code) == VmCode(1, code.refs - 1)

\* The code an exception handler installed in c2 runs, and the code of a
\* continuation an instruction calls.
HandlerCode == VmCode(4, 0)
CalleeCode == VmCode(1, 0)

\* Continuations: QuitCont and ExcQuitCont, which have no control data, and
\* OrdCont with its ControlData: nargs (None when absent), the saved stack
\* (has_stack tells Some from None) and c0 of the savelist (NoCont when
\* absent).  OrdCont(code) is OrdCont::simple.
QuitCont(exit_code) == [kind |-> "Quit", exit_code |-> exit_code, code |-> EmptyCode]
ExcQuitCont == [kind |-> "ExcQuit", exit_code |-> 0, code |-> EmptyCode]
NoCont == [kind |-> "None"]
OrdContData(code, nargs, has_stack, stack, c0) ==
    [kind |-> "Ord", exit_code |-> 0, code |-> code, nargs |-> nargs,
     has_stack |-> has_stack, stack |-> stack, c0 |-> c0]
OrdCont(code) == OrdContData(code, None, FALSE, <<>>, NoCont)

\* Stack: the top n values, and the values below them.
Top(s, n) == SubSeq(s, Len(s) - n + 1, Len(s))
Below(s, n) == SubSeq(s, 1, Len(s) - n)

\* Option<u16>::unwrap_or_default
unwrap_or_default(n) == IF n = None THEN 0 ELSE n

\* What the run loop last did: the branch of step() taken, the code, c0, gas
\* and stack step() was entered with, how it returned, and the exception
\* thrown for it with the way its handling ended.
NoStep ==
    [kind |-> "none", code |-> EmptyCode, c0 |-> QuitCont(0), gas |-> 0,
     stack |-> <<>>, result |-> "none", exception |-> 0, handling |-> "none",
     op |-> "none", cont |-> NoCont, pass_args |-> None, ret_args |-> None]

\* The stack a VM is started with.
InitialStack == <<1, 2, 3>>

\* VmStateBuilder::build: the code or none, c0 is quit0, c2 the ExcQuit
\* continuation, c4 the given data, c5 the empty cell, nothing committed.
VmStateBuild(has_code, code, data, gas) ==
    [throw_on_code_access |-> ~has_code,
     code |-> IF has_code THEN code ELSE EmptyCode, c0 |-> QuitCont(0),
     c4 |-> data, c5 |-> VmCell(0, 0),
     c2 |-> "ExcQuit", commited_state |-> NotCommited, steps |-> 0, gas |-> gas,
     limit |-> gas, res |-> 0, stack |-> InitialStack, exit_code |-> 0,
     last |-> NoStep]

\* The commit check without the depth limit.
CommitAllowed_LevelOnly(c4, c5) == c4.level = 0 /\ c5.level = 0

\* The condition under which try_commit takes the snapshot.
CommitAllowed(c4, c5) ==
    /\ c4.level = 0
    /\ c5.level = 0
    /\ c4.depth <= MAX_DATA_DEPTH
    /\ c5.depth <= MAX_DATA_DEPTH

try_commit(v) ==
    IF CommitAllowed(v.c4, v.c5)
    THEN [ok |-> TRUE, vm |-> [v EXCEPT !.commited_state = CommitedState(v.c4, v.c5)]]
    ELSE [ok |-> FALSE, vm |-> v]

\* force_commit: Err(CellOverflow) when try_commit does not commit
force_commit(v) == try_commit(v)

\* Results of the VM's steps: Ok(res), Err(out of gas), Err(exception).
StepOk(v, r) == [kind |-> "ok", res |-> r, vm |-> v]
StepOutOfGas(v) == [kind |-> "out_of_gas", res |-> 0, vm |-> v]
StepErr(v, exception) == [kind |-> "exception", res |-> exception, vm |-> v]

\* Values with which a step ends the run: the complements of the exit codes
\* 0 and 1 of the quit continuations, and of the number of an exception that
\* reaches the ExcQuit continuation.
QuitResults == {as_exit_code(0), as_exit_code(1), as_exit_code(5)}

\* preclear_cr: c0 is emptied when the savelist defines it.
preclear_cr(v, cont) ==
    IF cont.c0.kind # "None" THEN [v EXCEPT !.c0 = NoCont] ELSE v

\* do_jump_to: a quit continuation ends the run with the complement of its
\* exit code, ExcQuit with the complement of the number it pops from the
\* stack; an ordinary one merges its savelist, which fills c0 when it is
\* empty, and becomes the code.
do_jump_to(v, cont) ==
    CASE cont.kind = "Quit" -> StepOk(v, as_exit_code(cont.exit_code))
      [] cont.kind = "ExcQuit" ->
           StepOk([v EXCEPT !.stack = SubSeq(@, 1, Len(@) - 1)],
                  as_exit_code(v.stack[Len(v.stack)]))
      [] OTHER ->
           StepOk([v EXCEPT !.code = cont.code,
                            !.c0 = IF @.kind = "None" THEN cont.c0 ELSE @], 0)

\* adjust_jump_cont keeping the bottom of the stack instead of the top.
adjust_jump_cont_Bottom(v, cont, pass_args) ==
    LET depth == Len(v.stack)
        next_depth == IF cont.kind # "Ord" THEN unwrap_or_default(pass_args)
                      ELSE IF cont.nargs # None THEN cont.nargs
                      ELSE IF pass_args # None THEN pass_args ELSE depth
    IN  IF next_depth > depth \/ unwrap_or_default(pass_args) > depth
        THEN StepErr(v, StackUnderflow)
        ELSE StepOk([v EXCEPT !.stack = SubSeq(@, 1, next_depth)], 0)

\* adjust_jump_cont: the checks of pass_args and nargs against the depth of
\* the stack and against each other, then the stack the continuation gets:
\* its own stack extended by the top next_depth values, or those values alone.
\* The gas of the stack is charged beyond a free depth no stack here reaches.
adjust_jump_cont(v, cont, pass_args) ==
    LET depth == Len(v.stack) IN
    IF cont.kind = "Ord"
    THEN IF ~(unwrap_or_default(pass_args) <= depth
                /\ unwrap_or_default(cont.nargs) <= depth)
         THEN StepErr(v, StackUnderflow)
         ELSE IF pass_args # None /\ ~(unwrap_or_default(cont.nargs) <= pass_args)
         THEN StepErr(v, StackUnderflow)
         ELSE LET u == preclear_cr(v, cont)
                  next_depth == IF cont.nargs # None THEN cont.nargs
                                ELSE IF pass_args # None THEN pass_args
                                ELSE depth
              IN  IF cont.has_stack /\ cont.stack # <<>>
                  THEN StepOk([u EXCEPT !.stack = cont.stack \o Top(v.stack, next_depth)], 0)
                  ELSE IF next_depth < depth
                  THEN StepOk([u EXCEPT !.stack = Top(@, next_depth)], 0)
                  ELSE StepOk(u, 0)
    ELSE IF pass_args # None
    THEN IF depth < pass_args
         THEN StepErr(v, StackUnderflow)
         ELSE StepOk([v EXCEPT !.stack = Top(@, pass_args)], 0)
    ELSE StepOk(v, 0)

\* jump_ext
jump_ext(v, cont, pass_args) ==
    LET a == adjust_jump_cont(v, cont, pass_args)
    IN  IF a.kind = "ok" THEN do_jump_to(a.vm, cont) ELSE a

\* jump: with a saved stack or nargs the jump is jump_ext without pass_args.
jump(v, cont) ==
    IF cont.kind = "Ord" /\ (cont.has_stack \/ cont.nargs # None)
    THEN jump_ext(v, cont, None)
    ELSE do_jump_to(v, cont)

\* call_ext with the whole stack of the caller saved in the return
\* continuation.
call_ext_KeepsStack(v, cont, pass_args, ret_args) ==
    LET ret == OrdContData(v.code, ret_args, TRUE, v.stack, v.c0)
        n == IF pass_args = None THEN Len(v.stack) ELSE pass_args
    IN  IF cont.kind = "Ord" /\ cont.c0.kind # "None"
        THEN jump_ext(v, cont, pass_args)
        ELSE IF n > Len(v.stack)
        THEN StepErr(v, StackUnderflow)
        ELSE do_jump_to([v EXCEPT !.stack = Top(@, n), !.code = EmptyCode,
                                  !.c0 = ret], cont)

\* call_ext: a jump when the continuation has c0; else the checks of
\* jump_ext, the new stack (the stack of the continuation extended by the
\* top `copy` values, or those values alone, `skip` more being dropped) and
\* the return continuation with what is left of the old stack, ret_args, the
\* code and the old c0.
call_ext(v, cont, pass_args, ret_args) ==
    LET depth == Len(v.stack) IN
    IF cont.kind = "Ord"
    THEN IF cont.c0.kind # "None"
         THEN jump_ext(v, cont, pass_args)
         ELSE IF ~(unwrap_or_default(pass_args) <= depth
                     /\ unwrap_or_default(cont.nargs) <= depth)
         THEN StepErr(v, StackUnderflow)
         ELSE IF pass_args # None /\ ~(unwrap_or_default(cont.nargs) <= pass_args)
         THEN StepErr(v, StackUnderflow)
         ELSE LET copy == IF pass_args = None THEN depth
                          ELSE IF cont.nargs # None THEN cont.nargs
                          ELSE pass_args
                  skip == IF pass_args # None /\ cont.nargs # None
                          THEN pass_args - cont.nargs
                          ELSE 0
                  new_stack == IF cont.has_stack /\ cont.stack # <<>>
                               THEN cont.stack \o Top(v.stack, copy)
                               ELSE Top(v.stack, copy)
                  ret == OrdContData(v.code, ret_args, TRUE,
                                     Below(v.stack, copy + skip), v.c0)
              IN  do_jump_to([v EXCEPT !.stack = new_stack, !.code = EmptyCode,
                                       !.c0 = ret], cont)
    ELSE IF pass_args # None /\ pass_args > depth
    THEN StepErr(v, StackUnderflow)
    ELSE LET n == IF pass_args = None THEN depth ELSE pass_args
             ret == OrdContData(v.code, ret_args, TRUE, Below(v.stack, n), v.c0)
         IN  do_jump_to([v EXCEPT !.stack = Top(@, n), !.code = EmptyCode,
                                  !.c0 = ret], cont)

\* call: a jump when the continuation has c0, call_ext when it has a stack
\* or nargs, else the return continuation OrdCont::simple with the old c0.
call(v, cont) ==
    IF cont.kind = "Ord" /\ cont.c0.kind # "None"
    THEN jump(v, cont)
    ELSE IF cont.kind = "Ord" /\ (cont.has_stack \/ cont.nargs # None)
    THEN call_ext(v, cont, None, None)
    ELSE do_jump_to([v EXCEPT !.code = EmptyCode,
                              !.c0 = OrdContData(v.code, None, FALSE, <<>>, v.c0)],
                    cont)

\* The continuations the instructions of the code jump to and call, and the
\* numbers of arguments they pass and expect back.
Closure == OrdContData(CalleeCode, 1, TRUE, <<7>>, NoCont)
TwoArgs == OrdContData(CalleeCode, 2, FALSE, <<>>, NoCont)
WithC0 == OrdContData(CalleeCode, None, TRUE, <<7>>, QuitCont(1))
Instr(op, cont, pass_args, ret_args) ==
    [op |-> op, cont |-> cont, pass_args |-> pass_args, ret_args |-> ret_args]
ControlFlow ==
    {Instr("jump_ext", Closure, 2, None),
     Instr("jump_ext", TwoArgs, None, None),
     Instr("jump_ext", TwoArgs, 1, None),
     Instr("call", OrdCont(CalleeCode), None, None),
     Instr("call", WithC0, None, None),
     Instr("call", Closure, None, None),
     Instr("call_ext", OrdCont(CalleeCode), 1, 1),
     Instr("call_ext", Closure, 2, None),
     Instr("call_ext", WithC0, 1, None)}

\* cp.dispatch: the instruction at hand decides; the instructions are reduced
\* to what they do to the code, c0, c2, c4, c5 and the committed state.
Dispatch(v) ==
    IF v.gas = 0 THEN {StepOutOfGas([v EXCEPT !.last.kind = "dispatch"])}
    ELSE LET w == [v EXCEPT !.gas = @ - 1, !.code.ops = @ - 1,
                            !.last.kind = "dispatch"]
             commit == force_commit(w)
         IN  {StepOk(w, 0)}
               \cup {StepOk([w EXCEPT !.c4 = cell], 0) : cell \in VmCells}
               \cup {StepOk([w EXCEPT !.c5 = cell], 0) : cell \in VmCells}
               \cup {StepOk([w EXCEPT !.c2 = c], 0) : c \in {"ExcQuit", "Handler", "None"}}
               \cup {LET u == [w EXCEPT !.last.op = i.op, !.last.cont = i.cont,
                                          !.last.pass_args = i.pass_args,
                                          !.last.ret_args = i.ret_args]
                       IN  CASE i.op = "jump_ext" -> jump_ext(u, i.cont, i.pass_args)
                             [] i.op = "call" -> call(u, i.cont)
                             [] OTHER -> call_ext(u, i.cont, i.pass_args, i.ret_args) :
                          i \in ControlFlow}
               \cup {IF commit.ok THEN StepOk(commit.vm, 0) ELSE StepErr(w, CellOverflow)}
               \cup {StepOk(w, r) : r \in QuitResults}
               \cup {StepErr(w, InvalidOpcode)}

\* "implicit JMPREF": the gas of the jump, then of the cell that is loaded.
ImplicitJmpRef(v) ==
    LET w == [v EXCEPT !.last.kind = "jmpref"] IN
    IF w.gas = 0 THEN {StepOutOfGas(w)}
    ELSE IF w.gas = 1 THEN {StepOutOfGas([w EXCEPT !.gas = 0])}
    ELSE {jump([w EXCEPT !.gas = @ - 2], OrdCont(FirstReference(w.code)))}

\* "implicit RET" with c0 left in place.
ImplicitRet_KeepsC0(v) ==
    LET w == [v EXCEPT !.last.kind = "ret"] IN
    IF w.gas = 0 THEN {StepOutOfGas(w)}
    ELSE {jump([w EXCEPT !.gas = @ - 1], w.c0)}

\* "implicit RET": the gas of the return, then ret(): take_c0 puts quit0 into
\* c0 and the continuation taken is jumped to.
ImplicitRet(v) ==
    LET w == [v EXCEPT !.last.kind = "ret"] IN
    IF w.gas = 0 THEN {StepOutOfGas(w)}
    ELSE LET u == [w EXCEPT !.gas = @ - 1] IN
         IF u.c0.kind = "None" THEN {StepErr(u, InvalidOpcode)}
         ELSE {jump([u EXCEPT !.c0 = QuitCont(0)], u.c0)}

\* step()
StepResults(v) ==
    LET w == [v EXCEPT !.steps = @ + 1,
                       !.last = [NoStep EXCEPT !.code = v.code, !.c0 = v.c0,
                                               !.gas = v.gas, !.stack = v.stack]]
    IN  IF w.code.ops > 0 THEN Dispatch(w)
        ELSE IF w.code.refs > 0 THEN ImplicitJmpRef(w)
        ELSE ImplicitRet(w)

\* throw_exception with the code left as it is.
throw_exception_KeepsCode(v, n) ==
    LET w == [v EXCEPT !.stack = <<0, n>>] IN
    IF w.gas = 0 THEN {StepOutOfGas(w)}
    ELSE LET u == [w EXCEPT !.gas = @ - 1] IN
         CASE u.c2 = "None" -> {StepErr(u, InvalidOpcode)}
           [] u.c2 = "ExcQuit" -> {jump(u, ExcQuitCont)}
           [] OTHER -> {StepOk(u, 0), StepErr(u, InvalidOpcode)}

\* throw_exception(n): the stack becomes [0, n], the code is cleared, the gas
\* of an exception is consumed and c2 is jumped to; the jump to a handler
\* with control data may fail.
throw_exception(v, n) ==
    LET w == [v EXCEPT !.stack = <<0, n>>, !.code = EmptyCode] IN
    IF w.gas = 0 THEN {StepOutOfGas(w)}
    ELSE LET u == [w EXCEPT !.gas = @ - 1] IN
         CASE u.c2 = "None" -> {StepErr(u, InvalidOpcode)}
           [] u.c2 = "ExcQuit" -> {jump(u, ExcQuitCont)}
           [] OTHER -> {jump(u, OrdCont(HandlerCode)), StepErr(u, InvalidOpcode)}

\* Out of gas reported in the form of a handled exception.
throw_out_of_gas_Negated(v) ==
    [res |-> as_exit_code(OutOfGas), vm |-> [v EXCEPT !.stack = <<v.limit - v.gas>>]]

\* throw_out_of_gas: the stack holds the consumed gas, the result is positive
throw_out_of_gas(v) ==
    [res |-> OutOfGas, vm |-> [v EXCEPT !.stack = <<v.limit - v.gas>>]]


\* The VM while the action phase is modelled, and the reverse.
VmIdle == VmStateBuild(TRUE, EmptyCode, VmCell(0, 0), 0)

\* run(): the check made before the loop.
VmRun ==
    /\ pc = "vm_start"
    /\ IF vm.throw_on_code_access
       THEN /\ vm' = [vm EXCEPT !.exit_code = Fatal]
            /\ pc' = "vm_returned"
       ELSE /\ vm' = vm
            /\ pc' = "vm_loop"
    /\ UNCHANGED <<st, inp, res, ctx, hist>>

InLoop == pc = "vm_loop" /\ vm.res = 0

\* `Ok(res) => res`
VmStepOk ==
    /\ InLoop
    /\ \E s \in StepResults(vm) :
          /\ s.kind = "ok"
          /\ vm' = [s.vm EXCEPT !.res = s.res, !.last.result = "ok"]
    /\ pc' = "vm_loop"
    /\ UNCHANGED <<st, inp, res, ctx, hist>>

\* `Err(e) if e.is_out_of_gas()`
VmStepOutOfGas ==
    /\ InLoop
    /\ \E s \in StepResults(vm) :
          /\ s.kind = "out_of_gas"
          /\ LET t == throw_out_of_gas([s.vm EXCEPT !.steps = @ + 1])
             IN  vm' = [t.vm EXCEPT !.res = t.res, !.last.result = "out_of_gas"]
    /\ pc' = "vm_loop"
    /\ UNCHANGED <<st, inp, res, ctx, hist>>

\* `Err(e)`: the exception is thrown; a second error while it is thrown
\* ends the run at once.
VmStepException ==
    /\ InLoop
    /\ \E s \in StepResults(vm) :
          /\ s.kind = "exception"
          /\ \E h \in throw_exception([s.vm EXCEPT !.steps = @ + 1,
                                                   !.last.result = "exception",
                                                   !.last.exception = s.res],
                                      s.res) :
                CASE h.kind = "ok" ->
                       /\ vm' = [h.vm EXCEPT !.res = h.res, !.last.handling = "ok"]
                       /\ pc' = "vm_loop"
                  [] h.kind = "out_of_gas" ->
                       /\ LET t == throw_out_of_gas([h.vm EXCEPT !.steps = @ + 1])
                          IN  vm' = [t.vm EXCEPT !.res = t.res,
                                                 !.last.handling = "out_of_gas"]
                       /\ pc' = "vm_loop"
                  [] OTHER ->
                       /\ vm' = [h.vm EXCEPT !.exit_code = as_exit_code(s.res),
                                             !.last.handling = "fatal"]
                       /\ pc' = "vm_returned"
    /\ UNCHANGED <<st, inp, res, ctx, hist>>

\* Only the complement of exit code 0 taken as normal termination.
IsNormalTermination_ZeroOnly(r) == r = -1

\* res | 1 == -1
IsNormalTermination(r) == r = -1 \/ r = -2

\* After the loop: "Try commit on ~(0) and ~(-1) exit codes".
VmLoopExit ==
    /\ pc = "vm_loop"
    /\ vm.res # 0
    /\ LET c == try_commit(vm) IN
       IF IsNormalTermination(vm.res)
       THEN IF c.ok
            THEN vm' = [c.vm EXCEPT !.exit_code = vm.res]
            ELSE vm' = [vm EXCEPT !.stack = <<0>>,
                                  !.exit_code = as_exit_code(CellOverflow)]
       ELSE vm' = [vm EXCEPT !.exit_code = vm.res]
    /\ pc' = "vm_returned"
    /\ UNCHANGED <<st, inp, res, ctx, hist>>

-----------------------------------------------------------------------------
(* Specifications                                                          *)

\* What hist records of the way the action list was put together: the cell
\* bodies in insertion order, the cell the chain ends in, whether every cell
\* was installed by add_action; then the log of the execution.
History(state, bodies, base, installed) ==
    [initial |-> state, bodies |-> bodies, base |-> base, installed |-> installed,
     executed |-> <<>>, fines |-> <<0>>, failed_at |-> None, code_set |-> -1,
     log |-> <<>>, pre |-> Snapshot([ctx |-> NoContext, res |-> ActionPhaseFullInit]),
     calls |-> <<>>]

\* The action lists: installed by add_action, built from arbitrary bodies on
\* any base, and long ones around MAX_ACTIONS.
Lists ==
    {[bodies |-> [i \in 1..Len(acts) |-> StoreOutAction(acts[i])],
      base |-> EmptyCell, installed |-> TRUE,
      actions |-> InstallAll(<<EmptyCell>>, acts), setups |-> Setups] :
        acts \in UNION {ActionSeqs(n) : n \in 0..MaxActs}}
    \cup
    {[bodies |-> bodies, base |-> base, installed |-> FALSE,
      actions |-> make_action_list(base, bodies),
      setups |-> {s \in Setups : ~s.st.is_special /\ ~s.st.charge_action_fees_on_fail}] :
        bodies \in UNION {RawSeqs(n) : n \in 0..MaxActs}, base \in Bases}
    \cup
    {[bodies |-> LongList(n), base |-> base, installed |-> FALSE,
      actions |-> make_action_list(base, LongList(n)),
      setups |-> {s \in Setups : s.st.is_special}] :
        n \in (MAX_ACTIONS - 1)..(MAX_ACTIONS + LongExtra), base \in Bases}

Init ==
    /\ pc = "start"
    /\ \E l \in Lists : \E s \in l.setups :
          /\ st = s.st
          /\ inp = [received_message |-> s.inp.received_message,
                    original_balance |-> s.inp.original_balance,
                    new_state |-> s.inp.new_state, actions |-> l.actions,
                    gas_fees |-> s.inp.gas_fees]
          /\ hist = History(s.st, l.bodies, l.base, l.installed)
    /\ res = ActionPhaseFullInit
    /\ ctx = NoContext
    /\ vm = VmIdle

Next ==
    \/ UnpackActions
    \/ ParseActions
    \/ ListValid
    \/ SkipAction
    \/ ExecSendMsg
    \/ ExecSetCode
    \/ ExecReserveCurrency
    \/ ExecChangeLibrary
    \/ StateLimitsExceeded
    \/ CommitPhase

Spec == Init /\ [][Next]_vars

\* The VM on its own: every way of building it, then run().
VmInit ==
    /\ pc = "vm_start"
    /\ \E has_code \in BOOLEAN, code \in VmCodes, data \in VmCells, gas \in 0..MaxGas :
          vm = VmStateBuild(has_code, code, data, gas)
    /\ st = Executor(ZeroCC, FALSE, FALSE, FALSE, "Active")
    /\ inp = [received_message |-> NoReceivedMessage, original_balance |-> ZeroCC,
              new_state |-> AccountInit, actions |-> <<EmptyCell>>, gas_fees |-> 0]
    /\ hist = History(st, <<>>, EmptyCell, TRUE)
    /\ res = ActionPhaseFullInit
    /\ ctx = NoContext

VmNext ==
    \/ VmRun
    \/ VmStepOk
    \/ VmStepOutOfGas
    \/ VmStepException
    \/ VmLoopExit

VmSpec == VmInit /\ [][VmNext]_vars

-----------------------------------------------------------------------------
(* Properties of the action phase: the walk and the validation pass        *)

\* The number of action cells of the chain, and the cells as installed.
ChainLength == Len(hist.bodies)

\* The chain ends in the empty cell and is short enough to be walked.
WalkCompletes == hist.base = EmptyCell /\ ChainLength <= 255

\* The walk, respectively the validation pass, is over.
Walked == pc # "start" /\ pc \notin {"vm_start", "vm_loop", "vm_returned"}
Validated == Walked /\ pc # "parse"

\* The executor is as it was when the phase began.
ExecutorUntouched == st = hist.initial

\* C4: a chain of n action cells is accepted by the walk iff n <= 255; for
\* n >= 256 the phase returns success = false, valid = false, result_code 33,
\* result_arg 256, total_actions 0, action_fine 0 and leaves the executor's
\* balance, total_fees, end_lt, out_msgs and account state unchanged.
C4_ChainLengthBound ==
    Walked =>
      /\ (hist.base = EmptyCell /\ ChainLength <= 255) =>
            /\ res.action_phase.total_actions = ChainLength
            /\ res.action_phase.result_code # 33
            /\ res.action_phase.result_code # 32
      /\ ChainLength >= 256 =>
            /\ pc = "done"
            /\ ~res.action_phase.success
            /\ ~res.action_phase.valid
            /\ res.action_phase.result_code = 33
            /\ res.action_phase.result_arg = 256
            /\ res.action_phase.total_actions = 0
            /\ res.action_fine = 0
            /\ st.balance = hist.initial.balance
            /\ st.total_fees = hist.initial.total_fees
            /\ st.end_lt = hist.initial.end_lt
            /\ st.out_msgs = hist.initial.out_msgs
            /\ st.state = hist.initial.state

\* C4 witness: a chain of 257 cells has been rejected with code 33.
C4_Witness ==
    /\ pc = "done"
    /\ ChainLength = 257
    /\ res.action_phase.result_code = 33

\* C5: when the walk reaches an exotic cell, or a non-empty ordinary cell
\* without reference, after i cells, the phase returns result_code 32,
\* result_arg i, valid = false, success = false, total_actions 0 and executes
\* nothing (balance, total_fees, end_lt unchanged).
C5_InvalidActionList ==
    (Walked /\ hist.base \in {ExoticCell, NoRefCell} /\ ChainLength <= 255) =>
        /\ pc = "done"
        /\ res.action_phase.result_code = 32
        /\ res.action_phase.result_arg = ChainLength
        /\ ~res.action_phase.valid
        /\ ~res.action_phase.success
        /\ res.action_phase.total_actions = 0
        /\ hist.executed = <<>>
        /\ st.balance = hist.initial.balance
        /\ st.total_fees = hist.initial.total_fees
        /\ st.end_lt = hist.initial.end_lt

\* C5 witness: the walk met a cell without reference after two action cells.
C5_Witness ==
    /\ pc = "done"
    /\ hist.base = NoRefCell
    /\ ChainLength = 2
    /\ res.action_phase.result_code = 32

\* The cells of the chain, by insertion index, that do not hold exactly one
\* action; those of them the validation may skip; those it must reject.
Unparsed(b) == ~b.parse_ok \/ b.trailing
SendMsgShaped(b) == b.bits >= 40 /\ b.tag = "SendMsg"
Skippable(b) == Unparsed(b) /\ SendMsgShaped(b) /\ HasFlag(b.mode, 2)
Rejected(b) == Unparsed(b) /\ ~Skippable(b)
RejectedCells == {i \in 1..ChainLength : Rejected(hist.bodies[i])}
FirstRejected == CHOOSE i \in RejectedCells : \A j \in RejectedCells : i <= j
SkippedBefore(k) == Cardinality({i \in 1..ChainLength : i < k /\ Skippable(hist.bodies[i])})

\* C6: a cell that does not parse as one action consuming the whole slice is
\* skipped and counted in skipped_actions when it has >= 40 bits, the SendMsg
\* tag and IGNORE_ERROR; otherwise the phase fails with result_code 34,
\* valid = false, result_arg = its insertion index and bounce = true exactly
\* when it is SendMsg-shaped with BOUNCE_ON_ERROR and without IGNORE_ERROR;
\* no action is executed when validation fails.
C6_ValidationPass ==
    (Validated /\ WalkCompletes) =>
        IF RejectedCells = {}
        THEN /\ res.action_phase.valid
             /\ res.action_phase.skipped_actions >= SkippedBefore(ChainLength + 1)
             /\ hist.executed = <<>> /\ pc = "exec" =>
                    res.action_phase.skipped_actions = SkippedBefore(ChainLength + 1)
             /\ Len(hist.executed) <= ChainLength - SkippedBefore(ChainLength + 1)
        ELSE LET b == hist.bodies[FirstRejected] IN
             /\ pc = "done"
             /\ res.action_phase.result_code = 34
             /\ ~res.action_phase.valid
             /\ ~res.action_phase.success
             /\ res.action_phase.result_arg = FirstRejected - 1
             /\ res.bounce = (SendMsgShaped(b) /\ HasFlag(b.mode, 16) /\ ~HasFlag(b.mode, 2))
             /\ res.action_phase.skipped_actions = SkippedBefore(FirstRejected)
             /\ hist.executed = <<>>
             /\ ExecutorUntouched

\* C6 witness: the second cell was rejected with a bounce request after the
\* first one had been skipped.
C6_Witness ==
    /\ pc = "done"
    /\ WalkCompletes
    /\ RejectedCells # {}
    /\ FirstRejected = 2
    /\ res.bounce
    /\ res.action_phase.skipped_actions = 1

\* C7: valid is true iff the walk completed and every action cell was
\* accepted or skipped by the validation pass; total_actions equals the chain
\* length n whenever the walk completes, also when a cell then fails
\* validation with code 34, and it is 0 when the walk itself fails with code
\* 32 or 33 (so it is 0 for a non-empty chain only then).
C7_TotalActionsAndValid ==
    Validated =>
        /\ res.action_phase.valid <=> (WalkCompletes /\ RejectedCells = {})
        /\ WalkCompletes => res.action_phase.total_actions = ChainLength
        /\ ~WalkCompletes =>
              /\ res.action_phase.total_actions = 0
              /\ res.action_phase.result_code \in {32, 33}
        /\ (res.action_phase.total_actions = 0 /\ ChainLength > 0) => ~WalkCompletes

\* C7 witness: validation failed with code 34 on a chain of two cells whose
\* walk completed, and total_actions is 2.
C7_Witness ==
    /\ pc = "done"
    /\ WalkCompletes
    /\ ChainLength = 2
    /\ res.action_phase.result_code = 34
    /\ ~res.action_phase.valid
    /\ res.action_phase.total_actions = 2

-----------------------------------------------------------------------------
(* Properties of the action phase: execution                               *)

Succeeded == pc = "done" /\ res.action_phase.success

\* Option<Tokens> read as an amount.
Amount(opt) == IF opt = None THEN 0 ELSE opt

RECURSIVE SumValues(_, _)
\* The tokens carried by the messages msgs[i..].
SumValues(msgs, i) ==
    IF i > Len(msgs) THEN 0 ELSE msgs[i].value.tokens + SumValues(msgs, i + 1)

RECURSIVE SumFwdFees(_, _)
\* The forwarding fees left in the messages msgs[i..] for later hops.
SumFwdFees(msgs, i) ==
    IF i > Len(msgs) THEN 0 ELSE msgs[i].fwd_fee + SumFwdFees(msgs, i + 1)

\* C1 as stated: on success initial tokens = final tokens + the values of
\* the emitted messages + total_fwd_fees + total_action_fees.
C1_AsStated ==
    Succeeded =>
        hist.initial.balance.tokens =
            st.balance.tokens + SumValues(st.out_msgs, 1)
                + Amount(res.action_phase.total_fwd_fees)
                + Amount(res.action_phase.total_action_fees)

\* C1 (amended): on success initial tokens = final tokens + the values of
\* the emitted messages + total_fwd_fees + action_fine; total_action_fees is
\* action_fine plus the collected part of the forwarding fees, which
\* total_fwd_fees already contains.
C1_BalanceConservation ==
    Succeeded =>
        /\ hist.initial.balance.tokens =
               st.balance.tokens + SumValues(st.out_msgs, 1)
                   + Amount(res.action_phase.total_fwd_fees) + res.action_fine
        /\ Amount(res.action_phase.total_action_fees) + SumFwdFees(st.out_msgs, 1) =
               res.action_fine + Amount(res.action_phase.total_fwd_fees)

\* C1 witness: a message with value was sent, a fine was paid and part of the
\* forwarding fees was collected.
C1_Witness ==
    /\ Succeeded
    /\ Len(st.out_msgs) >= 1
    /\ res.action_fine > 0
    /\ res.action_phase.total_action_fees > res.action_fine
    /\ SumValues(st.out_msgs, 1) > 0

\* The actions in the order of the add_action calls that installed them.
Installed == [i \in 1..ChainLength |-> hist.bodies[i].action]

\* The place, counted from the head of the chain, of the cell that holds the
\* SendMsg action with message `id`.
ChainPlace(id) ==
    CHOOSE k \in 1..Len(inp.actions) :
        /\ inp.actions[k].body.action.type = "SendMsg"
        /\ inp.actions[k].body.action.msg.id = id

\* C2: the actions of a list built by successive add_action calls are
\* executed in the order they were added, and out_msgs on success lists the
\* messages in insertion order, the reverse of the order in which the chain
\* is traversed from its head.
C2_ActionOrdering ==
    hist.installed =>
        /\ Len(hist.executed) <= ChainLength
        /\ \A k \in 1..Len(hist.executed) : hist.executed[k] = Installed[k]
        /\ Succeeded =>
              /\ Len(hist.executed) = ChainLength
              /\ \A k \in 1..Len(st.out_msgs) :
                    /\ st.out_msgs[k].id \in 1..ChainLength
                    /\ Installed[st.out_msgs[k].id].type = "SendMsg"
                    /\ Installed[st.out_msgs[k].id].msg.id = st.out_msgs[k].id
              /\ \A k, l \in 1..Len(st.out_msgs) :
                    k < l =>
                      /\ st.out_msgs[k].id < st.out_msgs[l].id
                      /\ ChainPlace(st.out_msgs[k].id) > ChainPlace(st.out_msgs[l].id)

\* C2 witness: two different actions were installed and executed, and both
\* produced a message.
C2_Witness ==
    /\ Succeeded
    /\ hist.installed
    /\ ChainLength = 2
    /\ Len(st.out_msgs) = 2
    /\ Installed[1].mode # Installed[2].mode

\* Execution stopped on a failing action.
ActionFailedAt(i) == pc = "done" /\ hist.failed_at = i

\* The number of cells with insertion index <= i that hold an action.
ActionsUpTo(i) ==
    Cardinality({k \in 1..ChainLength : k <= i + 1 /\ ~Unparsed(hist.bodies[k])})

\* C8: when the action at insertion index i fails during execution the phase
\* stops (no action with index > i is executed), success = false,
\* result_arg = i, result_code is the code set by the action or 34 if none
\* was set, and no_funds is true iff result_code is 37 or 38.
C8_PerActionFailure ==
    \A i \in 0..(ChainLength - 1) :
        ActionFailedAt(i) =>
            /\ ~res.action_phase.success
            /\ res.action_phase.result_arg = i
            /\ res.action_phase.result_code =
                   (IF hist.code_set = -1 THEN 34 ELSE hist.code_set)
            /\ res.action_phase.result_code \in 34..43
            /\ res.action_phase.no_funds <=> res.action_phase.result_code \in {37, 38}
            /\ Len(hist.executed) = ActionsUpTo(i)
            /\ hist.executed[Len(hist.executed)] = hist.bodies[i + 1].action

\* C8 witness: the second action failed for lack of extra currency.
C8_Witness ==
    /\ ActionFailedAt(1)
    /\ res.action_phase.result_code = 38
    /\ res.action_phase.no_funds

\* Execution failed on an action or on the state-limit check.
ExecutionFailed == pc = "done" /\ (hist.failed_at # None \/ res.state_exceeds_limits)

\* C9: when execution fails on an action or on the state-limit check,
\* total_fwd_fees is None, total_action_fees is the final action_fine (None
\* if zero), the balance tokens decrease by exactly action_fine and
\* total_fees increase by exactly action_fine, while out_msgs, end_lt, the
\* account state and the extra-currency balance are as before the phase.
C9_FailedPhaseEffects ==
    ExecutionFailed =>
        /\ ~res.action_phase.success
        /\ res.action_phase.total_fwd_fees = None
        /\ res.action_phase.total_action_fees =
               (IF res.action_fine = 0 THEN None ELSE res.action_fine)
        /\ st.balance.tokens = hist.initial.balance.tokens - res.action_fine
        /\ st.total_fees = hist.initial.total_fees + res.action_fine
        /\ st.balance.other = hist.initial.balance.other
        /\ st.out_msgs = hist.initial.out_msgs
        /\ st.end_lt = hist.initial.end_lt
        /\ st.state = hist.initial.state
        /\ st.end_status = hist.initial.end_status

\* C9 witness: the second action failed after the first one had built a
\* message and reserved nothing; a fine is charged.
C9_Witness ==
    /\ ActionFailedAt(1)
    /\ res.action_phase.messages_created = 1
    /\ res.action_fine > 0
    /\ ctx.out_msgs # <<>>
    /\ st.out_msgs = <<>>

\* C10: action_fine never decreases from one action to the next, and the
\* action_fine returned is at most the token balance at the start of the
\* phase, also when charge_action_fees_on_fail adds the collected fees.
C10_FineMonotonicity ==
    /\ [][res.action_fine <= res'.action_fine]_vars
    /\ [](pc = "done" => res.action_fine <= hist.initial.balance.tokens)

\* C10 witness: a failed phase under charge_action_fees_on_fail returns a
\* fine that grew twice: by a skipped message, then by the collected fees.
C10_Witness ==
    /\ pc = "done"
    /\ st.charge_action_fees_on_fail
    /\ hist.failed_at = 1
    /\ Len(hist.fines) = 3
    /\ hist.fines[1] < hist.fines[2]
    /\ hist.fines[2] < hist.fines[3]

-----------------------------------------------------------------------------
(* Properties of the VM                                                    *)

VmReturned == pc = "vm_returned"

\* The committed pair is at level 0 and of depth at most 512.
CommittedValid ==
    /\ vm.commited_state.some
    /\ vm.commited_state.c4.level = 0
    /\ vm.commited_state.c5.level = 0
    /\ vm.commited_state.c4.depth <= 512
    /\ vm.commited_state.c5.depth <= 512

\* The complements of the exit codes 0 and 1.
NormalTermination(exit_code) == exit_code \in {-1, -2}

\* C3: after run() returns, either commited_state is Some with c4 and c5 at
\* level 0 and of depth <= 512, or the exit code is an exception code; run()
\* never returns a normal-termination code while commited_state is None.
C3_CommitSafety ==
    /\ vm.commited_state.some => CommittedValid
    /\ VmReturned => (CommittedValid \/ ~NormalTermination(vm.exit_code))
    /\ (VmReturned /\ NormalTermination(vm.exit_code)) =>
          /\ vm.commited_state.c4 = vm.c4
          /\ vm.commited_state.c5 = vm.c5

\* C3 witness: run() returned the complement of exit code 0 after c4 and c5
\* had been replaced, with the replaced cells committed.
C3_Witness ==
    /\ VmReturned
    /\ vm.exit_code = -1
    /\ vm.steps >= 3
    /\ vm.commited_state.some
    /\ vm.commited_state.c4.depth = 512
    /\ vm.commited_state.c5.depth = 512

-----------------------------------------------------------------------------
(* Properties of the action phase: commit and fees                         *)

\* The pair `a` as the last executed action left it, or as it is created
\* when no action was executed.
AfterLastAction ==
    IF hist.log = <<>>
    THEN [ctx |-> [remaining_balance |-> hist.initial.balance,
                   reserved_balance |-> [tokens |-> 0, other |-> 0],
                   out_msgs |-> <<>>, end_lt |-> hist.initial.end_lt,
                   new_state |-> inp.new_state],
          res |-> ActionPhaseFullInit]
    ELSE hist.log[Len(hist.log)].post

\* C11: when all actions succeed and the state fits, the committed balance is
\* remaining_balance + reserved_balance, total_fees grows by total_action_fees,
\* which holds the collected fees and action_fine, result_code = 0,
\* result_arg = None, and out_msgs, end_lt and state = Active(new_state) are
\* committed; with an empty action list balance, total_fees and end_lt are as
\* before.
C11_SuccessfulCommit ==
    Succeeded =>
        LET a == AfterLastAction IN
        /\ st.balance.tokens =
               a.ctx.remaining_balance.tokens + a.ctx.reserved_balance.tokens
        /\ st.balance.other =
               a.ctx.remaining_balance.other + a.ctx.reserved_balance.other
        /\ Amount(res.action_phase.total_action_fees) =
               Amount(a.res.action_phase.total_action_fees) + res.action_fine
        /\ st.total_fees =
               hist.initial.total_fees + Amount(res.action_phase.total_action_fees)
        /\ res.action_phase.result_code = 0
        /\ res.action_phase.result_arg = None
        /\ st.out_msgs = a.ctx.out_msgs
        /\ st.end_lt = a.ctx.end_lt
        /\ st.state = [status |-> "Active", init |-> a.ctx.new_state]
        /\ ChainLength = 0 =>
              /\ st.balance = hist.initial.balance
              /\ st.total_fees = hist.initial.total_fees
              /\ st.end_lt = hist.initial.end_lt

\* C11 witness: a phase with a reservation and a sent message succeeded.
C11_Witness ==
    /\ Succeeded
    /\ AfterLastAction.ctx.reserved_balance.tokens > 0
    /\ AfterLastAction.ctx.remaining_balance.tokens > 0
    /\ Len(st.out_msgs) = 1
    /\ st.end_lt = hist.initial.end_lt + 1

\* The log entries of the SendMsg actions.
SendEntries == {k \in 1..Len(hist.log) : hist.log[k].action.type = "SendMsg"}

\* The action of entry e put a message into out_msgs.
Emitted(e) ==
    /\ e.ok
    /\ e.post.res.action_phase.messages_created =
           e.pre.res.action_phase.messages_created + 1

\* The message the action of entry e put into out_msgs.
Out(e) == e.post.ctx.out_msgs[Len(e.post.ctx.out_msgs)]

\* What the action of entry e added to total_fwd_fees and total_action_fees
\* and took from the remaining balance.
FwdFeeOf(e) ==
    Amount(e.post.res.action_phase.total_fwd_fees)
        - Amount(e.pre.res.action_phase.total_fwd_fees)
CollectedOf(e) ==
    Amount(e.post.res.action_phase.total_action_fees)
        - Amount(e.pre.res.action_phase.total_action_fees)
PaidBy(e) == e.pre.ctx.remaining_balance.tokens - e.post.ctx.remaining_balance.tokens

\* The action of entry e was skipped: it returned Ok and was counted as skipped.
SkippedEntry(e) ==
    /\ e.ok
    /\ e.post.res.action_phase.skipped_actions =
           e.pre.res.action_phase.skipped_actions + 1

\* The message of entry e passes the checks made before its size is computed.
WellFormed(e) ==
    /\ ~SendModeInvalid(e.action.mode)
    /\ ~e.action.msg.exotic /\ e.action.msg.parse_ok /\ ~e.action.msg.trailing
    /\ e.action.msg.src_ok
    /\ e.action.msg.kind = "Int" => e.action.msg.dst # "bad"
    /\ e.action.msg.kind = "ExtOut" => BitAndNot(e.action.mode, EXT_MSG_MASK, 1) = 0

\* Size and forwarding fee of the message of entry e in the layout `rewrite`.
StatsOf(e, rewrite) ==
    MessageStats(st, e.action.mode, e.action.msg, e.pre,
                 ApplyRewrite(e.action.msg, rewrite),
                 st.address_is_masterchain
                     \/ (e.action.msg.kind = "Int" /\ e.action.msg.dst = "mc"),
                 inp.gas_fees)

\* An internal message sent with neither ALL_BALANCE nor WITH_REMAINING_BALANCE.
PlainValue(e) ==
    /\ e.action.msg.kind = "Int"
    /\ ~HasFlag(e.action.mode, ALL_BALANCE)
    /\ ~HasFlag(e.action.mode, WITH_REMAINING_BALANCE)

C12_ValueBelowFee ==
    \E k \in SendEntries :
        /\ PlainValue(hist.log[k]) /\ WellFormed(hist.log[k])
        /\ StatsOf(hist.log[k], "None").walk.ok
        /\ hist.log[k].action.msg.value.tokens < StatsOf(hist.log[k], "None").fwd_fee
        /\ ~hist.log[k].ok
        /\ hist.log[k].post.res.action_phase.result_code = NotEnoughBalance

\* The layout under which the action of entry e made its last attempt.
LastCall(e) == e.calls[Len(e.calls)]

\* Sums of what the first k logged actions added to the two fee counters.
RECURSIVE SumFwdFeeOf(_)
SumFwdFeeOf(k) == IF k = 0 THEN 0 ELSE FwdFeeOf(hist.log[k]) + SumFwdFeeOf(k - 1)
RECURSIVE SumCollectedOf(_)
SumCollectedOf(k) == IF k = 0 THEN 0 ELSE CollectedOf(hist.log[k]) + SumCollectedOf(k - 1)

\* C13: total_fwd_fees is the sum of the forwarding fees of the emitted
\* messages and total_action_fees the sum of their collected parts. For an
\* internal message the collected part is get_first_part(fwd_fee), that is
\* (fwd_fee * first_frac) >> 16, and the message's fwd_fee field holds the
\* rest; for an external outbound message the whole fee is collected. An
\* action that emits no message adds to neither counter.
C13_FeeAccumulation ==
    /\ Amount(AfterLastAction.res.action_phase.total_fwd_fees)
           = SumFwdFeeOf(Len(hist.log))
    /\ Amount(AfterLastAction.res.action_phase.total_action_fees)
           = SumCollectedOf(Len(hist.log))
    /\ \A k \in 1..Len(hist.log) :
          LET e == hist.log[k]
              ms == StatsOf(e, LastCall(e))
              part == (ms.fwd_fee * ms.prices.first_frac) \div 65536
          IN  IF e.action.type = "SendMsg" /\ Emitted(e)
              THEN /\ FwdFeeOf(e) = ms.fwd_fee
                   /\ e.action.msg.kind = "Int" =>
                         /\ CollectedOf(e) = part
                         /\ Out(e).fwd_fee = ms.fwd_fee - part
                   /\ e.action.msg.kind = "ExtOut" =>
                         /\ CollectedOf(e) = ms.fwd_fee
                         /\ Out(e).fwd_fee = 0
              ELSE FwdFeeOf(e) = 0 /\ CollectedOf(e) = 0

\* C13 witness: an internal and an external outbound message were emitted,
\* the internal one with a collected part that is positive and smaller than
\* its fee, and both counters hold the sums.
C13_Witness ==
    /\ Succeeded
    /\ Len(hist.log) = 2
    /\ \A k \in 1..2 : hist.log[k].action.type = "SendMsg" /\ Emitted(hist.log[k])
    /\ \E i, x \in 1..2 :
          /\ hist.log[i].action.msg.kind = "Int"
          /\ hist.log[x].action.msg.kind = "ExtOut"
          /\ 0 < CollectedOf(hist.log[i])
          /\ CollectedOf(hist.log[i]) < FwdFeeOf(hist.log[i])
          /\ FwdFeeOf(hist.log[x]) > 0
    /\ Amount(res.action_phase.total_fwd_fees)
           = FwdFeeOf(hist.log[1]) + FwdFeeOf(hist.log[2])

\* The mode of entry e is one a SendMsg action may not carry: a bit that is
\* no flag (4 or 8), ALL_BALANCE together with WITH_REMAINING_BALANCE, or, for
\* a parsed external outbound message, a flag other than PAY_FEE_SEPARATELY,
\* IGNORE_ERROR and BOUNCE_ON_ERROR.
UnknownBit(mode) == HasFlag(mode, 4) \/ HasFlag(mode, 8)
BothBalanceFlags(mode) ==
    HasFlag(mode, ALL_BALANCE) /\ HasFlag(mode, WITH_REMAINING_BALANCE)
ExtOutFlagsOnly(mode) ==
    /\ ~HasFlag(mode, ALL_BALANCE) /\ ~HasFlag(mode, WITH_REMAINING_BALANCE)
    /\ ~HasFlag(mode, DELETE_IF_EMPTY)
ModeRejected(e) ==
    \/ UnknownBit(e.action.mode)
    \/ BothBalanceFlags(e.action.mode)
    \/ /\ e.action.msg.kind = "ExtOut"
       /\ ~e.action.msg.exotic /\ e.action.msg.parse_ok /\ ~e.action.msg.trailing
       /\ ~ExtOutFlagsOnly(e.action.mode)

\* C14: a SendMsg action whose mode has an unknown bit, or both ALL_BALANCE
\* and WITH_REMAINING_BALANCE, or (for an external outbound message) a flag
\* outside PAY_FEE_SEPARATELY, IGNORE_ERROR and BOUNCE_ON_ERROR, fails the
\* phase with result code 34 at its index and emits no message, also when
\* IGNORE_ERROR is set.
C14_SendModeValidity ==
    \A k \in SendEntries :
        LET e == hist.log[k] IN
        ModeRejected(e) =>
            /\ ~e.ok
            /\ k = Len(hist.log)
            /\ e.calls = <<"None">>
            /\ e.post.ctx.out_msgs = e.pre.ctx.out_msgs
            /\ e.post.res.action_phase.messages_created
                   = e.pre.res.action_phase.messages_created
            /\ e.post.res.action_phase.skipped_actions
                   = e.pre.res.action_phase.skipped_actions
            /\ ~res.action_phase.success
            /\ res.action_phase.result_code = ActionInvalid
            /\ res.action_phase.result_arg = e.idx

\* C14 witness: after a first action that was executed, a SendMsg carrying
\* IGNORE_ERROR and a rejected mode failed the phase.
C14_Witness ==
    /\ Len(hist.log) = 2
    /\ hist.log[1].ok
    /\ hist.log[2].action.type = "SendMsg"
    /\ ModeRejected(hist.log[2])
    /\ HasFlag(hist.log[2].action.mode, IGNORE_ERROR)
    /\ ~hist.log[2].ok
    /\ res.action_phase.result_code = ActionInvalid

\* Bit 2 of the mode of entry e is set: IGNORE_ERROR for SendMsg and
\* ReserveCurrency, the position of ADD_PUBLIC for ChangeLibrary.
CarriesIgnoreError(e) ==
    /\ e.action.type \in {"SendMsg", "ReserveCurrency", "ChangeLibrary"}
    /\ HasFlag(e.action.mode, IGNORE_ERROR)

\* The message of entry e passes the checks whose failure is never skipped:
\* the mode, the parse of the message and its source address.
PassesStrictChecks(e) ==
    /\ ~UnknownBit(e.action.mode) /\ ~BothBalanceFlags(e.action.mode)
    /\ ~e.action.msg.exotic /\ e.action.msg.parse_ok /\ ~e.action.msg.trailing
    /\ e.action.msg.src_ok
    /\ e.action.msg.kind = "ExtOut" => ExtOutFlagsOnly(e.action.mode)

\* The codes check_skip_invalid raises.
SkippableCodes ==
    {InvalidDstAddr, NotEnoughBalance, NotEnoughExtraBalance,
     FailedToFitMessage, MessageOutOfLimits}

\* The action after the one of entry k was executed, if there is one.
NextExecuted(k) ==
    hist.log[k].idx + 1 < Len(ctx.parsed_list) =>
        /\ k < Len(hist.log)
        /\ hist.log[k + 1].idx = hist.log[k].idx + 1

\* C15 as stated: no action carrying IGNORE_ERROR in its mode (SendMsg,
\* ReserveCurrency, ChangeLibrary) fails the phase.
C15_AsStated ==
    \A k \in 1..Len(hist.log) : CarriesIgnoreError(hist.log[k]) => hist.log[k].ok

\* C15: IGNORE_ERROR downgrades to a skip exactly the SendMsg failures raised
\* through check_skip_invalid (codes 36 to 40): a SendMsg carrying the flag
\* whose mode is valid, whose message is an ordinary, fully parsed one with an
\* accepted source address never fails the phase; when it emits no message it
\* is counted in skipped_actions and the following action is executed. A
\* SendMsg that fails although it carries the flag failed one of those checks,
\* with code 34 or 35. A ReserveCurrency carrying the flag never fails for
\* lack of balance (the reserve is clamped) but still fails with 34, and is
\* never counted as skipped; a ChangeLibrary is never skipped.
C15_IgnoreError ==
    /\ \A k \in SendEntries :
          LET e == hist.log[k] IN
          /\ (HasFlag(e.action.mode, IGNORE_ERROR) /\ PassesStrictChecks(e)) =>
                /\ e.ok
                /\ Emitted(e) \/ SkippedEntry(e)
                /\ pc \in {"done", "error"} => NextExecuted(k)
          /\ (HasFlag(e.action.mode, IGNORE_ERROR) /\ ~e.ok) =>
                /\ ~PassesStrictChecks(e)
                /\ res.action_phase.result_code \in {ActionInvalid, InvalidSrcAddr}
          /\ SkippedEntry(e) =>
                /\ HasFlag(e.action.mode, IGNORE_ERROR)
                /\ ~Emitted(e)
                /\ e.post.ctx.out_msgs = e.pre.ctx.out_msgs
          /\ (~e.ok /\ ~HasFlag(e.action.mode, IGNORE_ERROR) /\ PassesStrictChecks(e)) =>
                res.action_phase.result_code \in SkippableCodes
    /\ \A k \in 1..Len(hist.log) :
          LET e == hist.log[k] IN
          /\ SkippedEntry(e) => e.action.type = "SendMsg"
          /\ (e.action.type = "ReserveCurrency" /\ CarriesIgnoreError(e) /\ ~e.ok) =>
                res.action_phase.result_code = ActionInvalid

\* C15 witness: a SendMsg carrying IGNORE_ERROR whose value the balance does
\* not cover was skipped and the action after it emitted a message.
C15_Witness ==
    /\ Len(hist.log) = 2
    /\ hist.log[1].action.type = "SendMsg"
    /\ HasFlag(hist.log[1].action.mode, IGNORE_ERROR)
    /\ SkippedEntry(hist.log[1])
    /\ hist.log[2].action.type = "SendMsg"
    /\ Emitted(hist.log[2])
    /\ Succeeded

\* Entry e is an internal SendMsg that reaches the check of its destination
\* address, and the address is rejected.
RejectedDst(e) ==
    /\ e.action.type = "SendMsg"
    /\ e.action.msg.kind = "Int"
    /\ PassesStrictChecks(e)
    /\ e.action.msg.dst = "bad"

\* The action of entry e left the fine, the balances, the messages and the
\* logical time as it found them.
NothingCharged(e) ==
    /\ e.post.res.action_fine = e.pre.res.action_fine
    /\ e.post.ctx.remaining_balance = e.pre.ctx.remaining_balance
    /\ e.post.ctx.reserved_balance = e.pre.ctx.reserved_balance
    /\ e.post.ctx.out_msgs = e.pre.ctx.out_msgs
    /\ e.post.ctx.end_lt = e.pre.ctx.end_lt
    /\ FwdFeeOf(e) = 0 /\ CollectedOf(e) = 0

\* Entry e failed the phase with `code` at its index.
FailedWith(e, code) ==
    /\ ~e.ok
    /\ e.post.res.action_phase.result_code = code
    /\ res.action_phase.result_code = code
    /\ res.action_phase.result_arg = e.idx
    /\ ~res.action_phase.success

\* C16 as stated: an internal SendMsg without IGNORE_ERROR whose destination
\* is rejected fails with code 36 at its index, no message is emitted,
\* action_fine = 0 and balance, total_fees and end_lt are unchanged; with
\* IGNORE_ERROR it is skipped without any fine.
C16_AsStated ==
    \A k \in 1..Len(hist.log) :
        LET e == hist.log[k] IN
        RejectedDst(e) =>
            IF HasFlag(e.action.mode, IGNORE_ERROR)
            THEN SkippedEntry(e) /\ NothingCharged(e)
            ELSE /\ FailedWith(e, InvalidDstAddr)
                 /\ pc = "done" =>
                       /\ st.out_msgs = hist.initial.out_msgs
                       /\ res.action_fine = 0
                       /\ st.balance = hist.initial.balance
                       /\ st.total_fees = hist.initial.total_fees
                       /\ st.end_lt = hist.initial.end_lt

\* C16: an internal SendMsg without IGNORE_ERROR whose destination is
\* rejected fails with code 36 at its index; the action itself emits no
\* message and adds no fine; no message is committed and end_lt is unchanged;
\* the balance and total_fees change by exactly what the earlier actions left
\* to charge (their fines, and their collected fees when action fees are
\* charged on failure), so they are unchanged and action_fine = 0 when the
\* action is the first one. With IGNORE_ERROR the action is skipped without
\* any fine.
C16_InvalidDestination ==
    \A k \in 1..Len(hist.log) :
        LET e == hist.log[k]
            due == e.pre.res.action_fine
                     + (IF st.charge_action_fees_on_fail
                        THEN Amount(e.pre.res.action_phase.total_action_fees)
                        ELSE 0)
        IN  RejectedDst(e) =>
            IF HasFlag(e.action.mode, IGNORE_ERROR)
            THEN SkippedEntry(e) /\ NothingCharged(e)
            ELSE /\ FailedWith(e, InvalidDstAddr)
                 /\ NothingCharged(e)
                 /\ e.calls = <<"None">>
                 /\ k = 1 => due = 0
                 /\ pc = "done" =>
                       /\ st.out_msgs = hist.initial.out_msgs
                       /\ st.end_lt = hist.initial.end_lt
                       /\ res.action_fine = due
                       /\ st.balance.tokens = hist.initial.balance.tokens - due
                       /\ st.balance.other = hist.initial.balance.other
                       /\ st.total_fees = hist.initial.total_fees + due

\* C16 witness: after a skipped action that was fined, a SendMsg without
\* IGNORE_ERROR to a rejected destination failed with code 36 and the fine of
\* the skipped action was charged.
C16_Witness ==
    /\ pc = "done"
    /\ Len(hist.log) = 2
    /\ SkippedEntry(hist.log[1])
    /\ hist.log[1].post.res.action_fine > 0
    /\ RejectedDst(hist.log[2])
    /\ ~HasFlag(hist.log[2].action.mode, IGNORE_ERROR)
    /\ FailedWith(hist.log[2], InvalidDstAddr)
    /\ st.balance.tokens = hist.initial.balance.tokens - res.action_fine

\* Entry e is a SendMsg with PAY_FEE_SEPARATELY and without IGNORE_ERROR that
\* reaches the computation of its forwarding fee, and the fee exceeds what is
\* left on the balance.
CannotPayFee(e) ==
    /\ e.action.type = "SendMsg"
    /\ WellFormed(e)
    /\ HasFlag(e.action.mode, PAY_FEE_SEPARATELY)
    /\ ~HasFlag(e.action.mode, IGNORE_ERROR)
    /\ StatsOf(e, "None").funds_ok
    /\ StatsOf(e, "None").walk.ok
    /\ e.pre.ctx.remaining_balance.tokens < StatsOf(e, "None").fwd_fee

\* What the action of entry e added to action_fine.
FineOf(e) == e.post.res.action_fine - e.pre.res.action_fine

\* C17 as stated: a SendMsg with PAY_FEE_SEPARATELY from an account whose
\* balance is below the forwarding fee fails with code 37 and no_funds, the
\* whole balance is taken as fine (total_action_fees = initial balance, final
\* balance zero), no message is emitted and end_lt is unchanged.
C17_AsStated ==
    (pc = "done" /\ Len(hist.log) = 1 /\ CannotPayFee(hist.log[1])) =>
        /\ FailedWith(hist.log[1], NotEnoughBalance)
        /\ res.action_phase.no_funds
        /\ Amount(res.action_phase.total_action_fees) = hist.initial.balance.tokens
        /\ st.balance.tokens = 0
        /\ st.out_msgs = hist.initial.out_msgs
        /\ st.end_lt = hist.initial.end_lt

\* C17: a SendMsg with PAY_FEE_SEPARATELY from an account whose balance is
\* below the forwarding fee fails with code 37 and no_funds, no message is
\* emitted and end_lt is unchanged; the action is fined
\* min(balance, fine_per_cell * min(max_cell_count, cells of the message)),
\* which is the whole balance only when that product reaches it; as the first
\* action of the list, total_action_fees is that fine and the balance
\* decreases by it.
C17_CannotPayFee ==
    \A k \in 1..Len(hist.log) :
        LET e == hist.log[k]
            ms == StatsOf(e, "None")
            fine == Min(e.pre.ctx.remaining_balance.tokens,
                        ms.fine_per_cell * Min(ms.max_cell_count, ms.stats.cell_count))
        IN  CannotPayFee(e) =>
              /\ FailedWith(e, NotEnoughBalance)
              /\ res.action_phase.no_funds
              /\ e.calls = <<"None">>
              /\ FineOf(e) = fine
              /\ PaidBy(e) = fine
              /\ e.post.ctx.out_msgs = e.pre.ctx.out_msgs
              /\ e.post.ctx.end_lt = e.pre.ctx.end_lt
              /\ pc = "done" =>
                    /\ st.out_msgs = hist.initial.out_msgs
                    /\ st.end_lt = hist.initial.end_lt
                    /\ k = 1 =>
                          /\ Amount(res.action_phase.total_action_fees) = fine
                          /\ st.balance.tokens = hist.initial.balance.tokens - fine
                          /\ st.total_fees = hist.initial.total_fees + fine

\* C17 witness: the only action, a SendMsg with PAY_FEE_SEPARATELY whose fee
\* the balance does not cover, failed with 37 and was fined less than the
\* balance.
C17_Witness ==
    /\ pc = "done"
    /\ Len(hist.log) = 1
    /\ CannotPayFee(hist.log[1])
    /\ FailedWith(hist.log[1], NotEnoughBalance)
    /\ res.action_phase.no_funds
    /\ 0 < FineOf(hist.log[1])
    /\ FineOf(hist.log[1]) < hist.initial.balance.tokens
    /\ st.balance.tokens = hist.initial.balance.tokens - FineOf(hist.log[1])

\* The layouts in the order the rewrite loop passes them to do_send_message.
RewriteOrder == <<"None", "StateInitToCell", "BodyToCell">>

IsPrefix(s, t) == Len(s) <= Len(t) /\ \A i \in 1..Len(s) : s[i] = t[i]

\* The layout of the last call of entry e is the last one there is.
FinalLayout(e) == ApplyRewrite(e.action.msg, LastCall(e)).rewrite = "BodyToCell"

\* The value the message of entry e carries under the layout of its last call.
ValueOf(e) ==
    IF e.action.msg.kind = "Int"
    THEN rewrite_message_value(e.pre, e.action.msg.value, e.action.mode,
                               StatsOf(e, LastCall(e)).fwd_fee, inp.gas_fees)
    ELSE [ok |-> TRUE, value |-> ZeroCC, total |-> StatsOf(e, LastCall(e)).fwd_fee]

\* The last call of entry e reached build_message.
ReachesBuild(e) ==
    /\ WellFormed(e)
    /\ StatsOf(e, LastCall(e)).funds_ok
    /\ StatsOf(e, LastCall(e)).walk.ok
    /\ ValueOf(e).ok
    /\ e.pre.ctx.remaining_balance.tokens >= ValueOf(e).total
    /\ e.pre.ctx.remaining_balance.other >= ValueOf(e).value.other

\* The root cell of the message of entry e holds more than 1023 bits or more
\* than 4 references under the layout of its last call.
RootOverflows(e) ==
    LET layout == ApplyRewrite(e.action.msg, LastCall(e)) IN
    \/ e.action.msg.info_bits + layout.init.bits + layout.body.bits > 1023
    \/ (IF e.action.msg.kind = "Int" /\ ValueOf(e).value.other # 0 THEN 1 ELSE 0)
           + Len(layout.init.refs) + Len(layout.body.refs) > 4

\* C18: for every SendMsg action the rewrite loop calls do_send_message at
\* most three times, with rewrite None, then StateInitToCell, then BodyToCell,
\* and ends in Sent or a failure; a message whose cell cannot be built under
\* the last layout fails with code 39 (or is skipped under IGNORE_ERROR), and
\* code 39 is raised under no other layout; a StateInitToCell attempt whose
\* state init has fewer than 2 references is treated as the BodyToCell
\* attempt and is the last one.
C18_RewriteLoop ==
    /\ (pc = "exec" /\ ctx.rewrite # "None") =>
          /\ hist.calls # <<>> /\ Len(hist.calls) < 3
          /\ IsPrefix(hist.calls, RewriteOrder)
          /\ ctx.rewrite = RewriteOrder[Len(hist.calls) + 1]
    /\ \A k \in SendEntries :
          LET e == hist.log[k] IN
          /\ e.calls # <<>> /\ IsPrefix(e.calls, RewriteOrder)
          /\ (Len(e.calls) >= 2 /\ Len(e.action.msg.init.refs) < 2) =>
                /\ Len(e.calls) = 2
                /\ FinalLayout(e)
                /\ Emitted(e) => ~Out(e).init_to_cell
          /\ (ReachesBuild(e) /\ RootOverflows(e)) =>
                /\ FinalLayout(e)
                /\ IF HasFlag(e.action.mode, IGNORE_ERROR)
                   THEN SkippedEntry(e) /\ ~Emitted(e)
                   ELSE FailedWith(e, FailedToFitMessage)
          /\ (~e.ok /\ e.post.res.action_phase.result_code = FailedToFitMessage) =>
                FinalLayout(e) /\ ReachesBuild(e) /\ RootOverflows(e)
          /\ (Emitted(e) /\ Len(e.calls) > 1) => ReachesBuild(e) /\ ~RootOverflows(e)

\* C18 witness: a message was sent at the third call, under BodyToCell, and
\* the next one, whose state init has one reference, failed with code 39 at
\* its second call.
C18_Witness ==
    /\ Len(hist.log) = 2
    /\ hist.log[1].action.type = "SendMsg"
    /\ hist.log[1].calls = RewriteOrder
    /\ Emitted(hist.log[1])
    /\ hist.log[2].action.type = "SendMsg"
    /\ hist.log[2].calls = <<"None", "StateInitToCell">>
    /\ Len(hist.log[2].action.msg.init.refs) = 1
    /\ FailedWith(hist.log[2], FailedToFitMessage)

\* Entry e emitted its message after at least one rewrite.
SentRewritten(e) ==
    e.action.type = "SendMsg" /\ Emitted(e) /\ Len(e.calls) > 1

\* The parts of the message of entry e its last call moved to a cell of
\* their own.
InitMoved(e) ==
    LastCall(e) = "StateInitToCell" /\ Len(e.action.msg.init.refs) >= 2
BodyMoved(e) ==
    /\ \/ LastCall(e) = "BodyToCell"
       \/ LastCall(e) = "StateInitToCell" /\ Len(e.action.msg.init.refs) < 2
    /\ e.action.msg.body.bits > 1
    /\ ~e.action.msg.body.to_cell

\* Cells and bits below the root of the message of entry e as the contract
\* built it.
OriginalCells(e) ==
    SumCells(MsgChildren(e.action.msg, e.action.msg.init, e.action.msg.body), 1)
OriginalBits(e) ==
    SumBits(MsgChildren(e.action.msg, e.action.msg.init, e.action.msg.body), 1)

FinePerCellOf(e) ==
    IF st.is_special THEN 0
    ELSE (StatsOf(e, "None").prices.cell_price \div 65536) \div 4
CellLimitOf(e) ==
    IF st.is_special THEN st.config.size_limits.max_msg_cells
    ELSE Min(st.config.size_limits.max_msg_cells,
             StatsOf(e, "None").funds \div FinePerCellOf(e))

\* The bounded walk over the child cells of the message of entry e under the
\* layout of its last call.
WalkOf(e) ==
    LET layout == ApplyRewrite(e.action.msg, LastCall(e)) IN
    AddCells([ok |-> TRUE, cells |-> 0, bits |-> 0],
             MsgChildren(e.action.msg, layout.init, layout.body), 1,
             [bit_count |-> st.config.size_limits.max_msg_bits,
              cell_count |-> CellLimitOf(e)])

\* Entry e is a SendMsg that reaches the walk over its child cells, and the
\* walk exceeds max_msg_bits or the cell limit.
OutOfLimits(e) ==
    /\ e.action.type = "SendMsg"
    /\ WellFormed(e)
    /\ StatsOf(e, "None").funds_ok
    /\ ~WalkOf(e).ok

\* C20: when the bounded walk over a message's child cells exceeds
\* max_msg_bits or the cell limit, a non-special account is charged
\* min(remaining_balance.tokens, fine_per_cell * min(max_cell_count, visited
\* cells)) with fine_per_cell = (cell_price >> 16) / 4 and max_cell_count =
\* min(max_msg_cells, funds / fine_per_cell); the fine moves from
\* remaining_balance to action_fine and the action is skipped under
\* IGNORE_ERROR or fails with code 40; a special account is charged nothing.
C20_MessageOutOfLimits ==
    \A k \in 1..Len(hist.log) :
        LET e == hist.log[k]
            fine == Min(e.pre.ctx.remaining_balance.tokens,
                        FinePerCellOf(e) * Min(CellLimitOf(e), WalkOf(e).cells))
        IN  OutOfLimits(e) =>
              /\ FineOf(e) = fine
              /\ PaidBy(e) = fine
              /\ e.post.ctx.remaining_balance.other = e.pre.ctx.remaining_balance.other
              /\ st.is_special => FineOf(e) = 0
              /\ e.post.ctx.out_msgs = e.pre.ctx.out_msgs
              /\ IF HasFlag(e.action.mode, IGNORE_ERROR)
                 THEN SkippedEntry(e)
                 ELSE FailedWith(e, MessageOutOfLimits)

\* C20 witness: a message with more cells than max_msg_cells, sent by a
\* non-special account that can pay for all of them, failed with code 40 and
\* the fine for max_msg_cells cells moved from the balance to action_fine.
C20_Witness ==
    \E k \in 1..Len(hist.log) :
        LET e == hist.log[k] IN
        /\ OutOfLimits(e)
        /\ ~st.is_special
        /\ CellLimitOf(e) = st.config.size_limits.max_msg_cells
        /\ FailedWith(e, MessageOutOfLimits)
        /\ FineOf(e) = FinePerCellOf(e) * st.config.size_limits.max_msg_cells
        /\ FineOf(e) > 0
        /\ PaidBy(e) = FineOf(e)

-----------------------------------------------------------------------------
(* Properties of the action phase: deletion, special actions, state limits *)

\* Entry e is a sent SendMsg carrying both DELETE_IF_EMPTY and ALL_BALANCE
\* while nothing was reserved.
DeletingSend(e) ==
    /\ e.action.type = "SendMsg"
    /\ Emitted(e)
    /\ HasFlag(e.action.mode, ALL_BALANCE)
    /\ HasFlag(e.action.mode, DELETE_IF_EMPTY)
    /\ e.pre.ctx.reserved_balance.tokens = 0
    /\ e.pre.ctx.reserved_balance.other = 0

\* C21: the account is marked for deletion only by a sent SendMsg that has
\* both DELETE_IF_EMPTY and ALL_BALANCE while reserved_balance is zero, and
\* stays marked whatever actions follow; a successful phase reports
\* status_change = Deleted exactly when such a message was sent, and then
\* the committed balance is zero in tokens and extra currencies and
\* end_status = NotExists.
C21_AccountDeletion ==
    /\ \A k \in 1..Len(hist.log) :
          LET e == hist.log[k] IN
          /\ e.post.ctx.delete_account =
                 (e.pre.ctx.delete_account \/ (e.ok /\ DeletingSend(e)))
          /\ e.post.ctx.delete_account =>
                 /\ e.post.ctx.remaining_balance.tokens = 0
                 /\ e.post.ctx.remaining_balance.other = 0
                 /\ e.post.ctx.reserved_balance.tokens = 0
                 /\ e.post.ctx.reserved_balance.other = 0
    /\ Succeeded =>
          /\ (res.action_phase.status_change = "Deleted")
                 = (\E k \in 1..Len(hist.log) : DeletingSend(hist.log[k]))
          /\ res.action_phase.status_change = "Deleted" =>
                 /\ st.balance.tokens = 0
                 /\ st.balance.other = 0
                 /\ st.end_status = "NotExists"
          /\ res.action_phase.status_change # "Deleted" =>
                 st.end_status = hist.initial.end_status

\* C21 witness: the first action sent the whole balance, extra currencies
\* included, with DELETE_IF_EMPTY, another action followed, and the phase
\* committed the deletion of an account that held both.
C21_Witness ==
    /\ Succeeded
    /\ Len(hist.log) = 2
    /\ DeletingSend(hist.log[1])
    /\ hist.log[2].ok
    /\ hist.initial.balance.tokens > 0 /\ hist.initial.balance.other > 0
    /\ res.action_phase.status_change = "Deleted"
    /\ st.end_status = "NotExists"
    /\ st.balance.tokens = 0 /\ st.balance.other = 0

\* The log entries of the SetCode actions.
SetCodeEntries == {k \in 1..Len(hist.log) : hist.log[k].action.type = "SetCode"}

\* C22: SetCode never fails: each SetCode action replaces new_state.code and
\* increments special_actions, and changes nothing else (balances, fees,
\* fine, messages, new_state.data and libraries); after a successful phase
\* the committed code is the code of the last SetCode in insertion order.
C22_SetCode ==
    /\ \A k \in SetCodeEntries :
          LET e == hist.log[k] IN
          /\ e.ok
          /\ e.post.ctx.new_state.code = e.action.code
          /\ e.post.ctx = [e.pre.ctx EXCEPT !.new_state.code = e.action.code]
          /\ e.post.res =
                 [e.pre.res EXCEPT !.action_phase.special_actions = @ + 1]
    /\ \A k \in 1..Len(hist.log) :
          k \notin SetCodeEntries =>
              hist.log[k].post.ctx.new_state.code = hist.log[k].pre.ctx.new_state.code
    /\ Succeeded =>
          IF SetCodeEntries = {}
          THEN st.state.init.code = inp.new_state.code
          ELSE \E k \in SetCodeEntries :
                  /\ \A j \in SetCodeEntries : j <= k
                  /\ st.state.init.code = hist.log[k].action.code

\* C22 witness: two SetCode actions with different codes succeeded and the
\* code of the second was committed, with balance and fees untouched.
C22_Witness ==
    /\ Succeeded
    /\ SetCodeEntries = {1, 2}
    /\ hist.log[1].action.code # hist.log[2].action.code
    /\ st.state.init.code = hist.log[2].action.code
    /\ res.action_phase.special_actions = 2
    /\ st.balance = hist.initial.balance
    /\ st.total_fees = hist.initial.total_fees

\* The log entries of the ReserveCurrency actions.
ReserveEntries ==
    {k \in 1..Len(hist.log) : hist.log[k].action.type = "ReserveCurrency"}

\* The mode of a ReserveCurrency action has a bit that is no flag (32, 64 or
\* 128), or REVERSE without WITH_ORIGINAL_BALANCE.
ReserveModeRejected(mode) ==
    \/ mode \div 32 # 0
    \/ HasFlag(mode, REVERSE) /\ ~HasFlag(mode, WITH_ORIGINAL_BALANCE)

\* Tokens and extra currencies of the reserve target of entry e before it is
\* clamped: value, original_balance + value or original_balance - value.
TargetTokens(e) ==
    IF ~HasFlag(e.action.mode, WITH_ORIGINAL_BALANCE) THEN e.action.value.tokens
    ELSE IF HasFlag(e.action.mode, REVERSE)
    THEN inp.original_balance.tokens - e.action.value.tokens
    ELSE inp.original_balance.tokens + e.action.value.tokens
TargetOther(e) ==
    IF ~HasFlag(e.action.mode, WITH_ORIGINAL_BALANCE) THEN e.action.value.other
    ELSE IF HasFlag(e.action.mode, REVERSE)
    THEN inp.original_balance.other - e.action.value.other
    ELSE inp.original_balance.other + e.action.value.other

\* The same once clamped to the remaining balance under IGNORE_ERROR.
ReserveTokens(e) ==
    IF HasFlag(e.action.mode, IGNORE_ERROR)
    THEN Min(TargetTokens(e), e.pre.ctx.remaining_balance.tokens)
    ELSE TargetTokens(e)
ReserveOther(e) ==
    IF HasFlag(e.action.mode, IGNORE_ERROR)
    THEN Min(TargetOther(e), e.pre.ctx.remaining_balance.other)
    ELSE TargetOther(e)

\* C23: a ReserveCurrency whose mode has unknown bits, or REVERSE without
\* WITH_ORIGINAL_BALANCE, fails with code 34. A ReserveCurrency that succeeds
\* has the target value, original_balance + value (WITH_ORIGINAL_BALANCE) or
\* original_balance - value (with REVERSE), clamped to remaining_balance
\* under IGNORE_ERROR; without ALL_BUT the target is added to
\* reserved_balance and the rest remains, with ALL_BUT the target remains and
\* the rest is added to reserved_balance; special_actions increases by 1.
C23_ReserveModes ==
    \A k \in ReserveEntries :
        LET e == hist.log[k]
            rem == e.pre.ctx.remaining_balance
            all_but == HasFlag(e.action.mode, ALL_BUT)
            rest == CC(rem.tokens - ReserveTokens(e), rem.other - ReserveOther(e))
            target == CC(ReserveTokens(e), ReserveOther(e))
            reserved == IF all_but THEN rest ELSE target
        IN  /\ ReserveModeRejected(e.action.mode) =>
                  /\ ~e.ok
                  /\ res.action_phase.result_code = ActionInvalid
                  /\ res.action_phase.result_arg = e.idx
            /\ e.ok =>
                  /\ ~ReserveModeRejected(e.action.mode)
                  /\ e.post.ctx.remaining_balance = (IF all_but THEN target ELSE rest)
                  /\ e.post.ctx.reserved_balance =
                        CC(e.pre.ctx.reserved_balance.tokens + reserved.tokens,
                           e.pre.ctx.reserved_balance.other + reserved.other)
                  /\ e.post.res.action_phase.special_actions =
                        e.pre.res.action_phase.special_actions + 1
                  /\ e.post.ctx.out_msgs = e.pre.ctx.out_msgs
                  /\ e.post.res.action_fine = e.pre.res.action_fine

\* C23 witness: a reserve of original_balance - value succeeded and an
\* ALL_BUT reserve after it left its target on the balance and moved the
\* rest to reserved_balance.
C23_Witness ==
    /\ Len(hist.log) = 2
    /\ ReserveEntries = {1, 2}
    /\ hist.log[1].ok /\ hist.log[2].ok
    /\ HasFlag(hist.log[1].action.mode, REVERSE)
    /\ hist.log[1].post.ctx.reserved_balance.tokens =
           inp.original_balance.tokens - hist.log[1].action.value.tokens
    /\ HasFlag(hist.log[2].action.mode, ALL_BUT)
    /\ hist.log[2].post.ctx.remaining_balance = hist.log[2].action.value
    /\ hist.log[2].post.ctx.reserved_balance.tokens
           > hist.log[1].post.ctx.reserved_balance.tokens
    /\ res.action_phase.special_actions = 2

\* The mode of entry e is accepted and its reserve target is not negative.
ReserveDefined(e) ==
    /\ ~ReserveModeRejected(e.action.mode)
    /\ TargetTokens(e) >= 0 /\ TargetOther(e) >= 0

\* C24: a ReserveCurrency without IGNORE_ERROR that reserves more tokens than
\* remaining_balance fails with code 37, and one that reserves more of an
\* extra currency fails with code 38, both setting no_funds; with
\* IGNORE_ERROR the amount is clamped and neither code occurs; a failed
\* ReserveCurrency leaves remaining_balance, reserved_balance and
\* special_actions unchanged.
C24_ReserveUnderflow ==
    \A k \in ReserveEntries :
        LET e == hist.log[k]
            rem == e.pre.ctx.remaining_balance
            ignore == HasFlag(e.action.mode, IGNORE_ERROR)
        IN  /\ (ReserveDefined(e) /\ ~ignore /\ TargetTokens(e) > rem.tokens) =>
                  FailedWith(e, NotEnoughBalance) /\ res.action_phase.no_funds
            /\ (ReserveDefined(e) /\ ~ignore /\ TargetTokens(e) <= rem.tokens
                  /\ TargetOther(e) > rem.other) =>
                  FailedWith(e, NotEnoughExtraBalance) /\ res.action_phase.no_funds
            /\ (ReserveDefined(e) /\ TargetTokens(e) <= rem.tokens
                  /\ TargetOther(e) <= rem.other) => e.ok
            /\ (ReserveDefined(e) /\ ignore) => e.ok
            /\ (~e.ok /\ ignore) =>
                  /\ res.action_phase.result_code = ActionInvalid
                  /\ ~res.action_phase.no_funds
            /\ ~e.ok =>
                  /\ e.post.ctx.remaining_balance = rem
                  /\ e.post.ctx.reserved_balance = e.pre.ctx.reserved_balance
                  /\ e.post.res.action_phase.special_actions =
                         e.pre.res.action_phase.special_actions

\* C24 witness: after a reserve that succeeded, a reserve of an extra
\* currency the balance holds too little of failed with code 38 and
\* no_funds, leaving what the first had reserved.
C24_Witness ==
    /\ Len(hist.log) = 2
    /\ ReserveEntries = {1, 2}
    /\ hist.log[1].ok
    /\ hist.log[1].post.ctx.reserved_balance.tokens > 0
    /\ TargetTokens(hist.log[2]) <= hist.log[2].pre.ctx.remaining_balance.tokens
    /\ FailedWith(hist.log[2], NotEnoughExtraBalance)
    /\ res.action_phase.no_funds
    /\ hist.log[2].post.ctx.reserved_balance = hist.log[1].post.ctx.reserved_balance

\* The log entries of the ChangeLibrary actions.
LibraryEntries ==
    {k \in 1..Len(hist.log) : hist.log[k].action.type = "ChangeLibrary"}

\* The action of entry e succeeded, was counted as a special action and left
\* the libraries `entries`.
LibraryDone(e, entries) ==
    /\ e.ok
    /\ e.post.res.action_phase.special_actions =
           e.pre.res.action_phase.special_actions + 1
    /\ e.post.ctx.new_state.libraries.entries = entries
    /\ e.post.ctx.new_state.libraries.valid = e.pre.ctx.new_state.libraries.valid

\* The action of entry e failed the phase with `code`, leaving libraries and
\* special_actions.
LibraryFailed(e, code) ==
    /\ ~e.ok
    /\ res.action_phase.result_code = code
    /\ res.action_phase.result_arg = e.idx
    /\ e.post.ctx.new_state = e.pre.ctx.new_state
    /\ e.post.res.action_phase.special_actions =
           e.pre.res.action_phase.special_actions

\* C25: ChangeLibrary outcomes in order: both ADD_PRIVATE and ADD_PUBLIC fail
\* with 34; with one of them, a library present under its hash with the same
\* public flag is a counted no-op (also when given as a hash), otherwise a
\* library given as a hash fails with 41, one larger than max_library_cells
\* with 43, a dictionary error with 42, and else the library is stored under
\* its hash; with neither flag the library is removed by hash (42 on a
\* dictionary error); every success adds exactly 1 to special_actions.
C25_ChangeLibrary ==
    \A k \in LibraryEntries :
        LET e == hist.log[k]
            lib == e.action.lib
            private == HasFlag(e.action.mode, ADD_PRIVATE)
            public == HasFlag(e.action.mode, ADD_PUBLIC)
            libs == e.pre.ctx.new_state.libraries
            others == {x \in libs.entries : x.hash # lib.hash}
            present == libs.valid
                         /\ \E x \in libs.entries :
                               x.hash = lib.hash /\ x.public = public
        IN  IF private /\ public THEN LibraryFailed(e, ActionInvalid)
            ELSE IF ~private /\ ~public
            THEN IF ~libs.valid THEN LibraryFailed(e, InvalidLibrariesDict)
                 ELSE LibraryDone(e, others)
            ELSE IF present THEN LibraryDone(e, libs.entries)
            ELSE IF lib.kind = "Hash" THEN LibraryFailed(e, NoLibCode)
            ELSE IF lib.cells > st.config.size_limits.max_library_cells
            THEN LibraryFailed(e, LibOutOfLimits)
            ELSE IF ~libs.valid THEN LibraryFailed(e, InvalidLibrariesDict)
            ELSE LibraryDone(e, others \cup {[hash |-> lib.hash, public |-> public,
                                              cells |-> lib.cells]})

\* C25 witness: a library given only as a hash and present with the same
\* public flag was a counted no-op, and the same hash asked as a private
\* library then failed with code 41.
C25_Witness ==
    /\ Len(hist.log) = 2
    /\ LibraryEntries = {1, 2}
    /\ hist.log[1].action.lib.kind = "Hash"
    /\ HasFlag(hist.log[1].action.mode, ADD_PUBLIC)
    /\ LibraryDone(hist.log[1], hist.log[1].pre.ctx.new_state.libraries.entries)
    /\ hist.log[2].action.lib.hash = hist.log[1].action.lib.hash
    /\ HasFlag(hist.log[2].action.mode, ADD_PRIVATE)
    /\ LibraryFailed(hist.log[2], NoLibCode)

\* Every action of the list returned Ok and the phase returned.
AllActionsSucceeded ==
    /\ pc = "done"
    /\ res.action_phase.valid
    /\ hist.failed_at = None

\* The state the actions produced holds more cells than an account may hold;
\* for an Active account only a state that differs from the current one is
\* measured.
NewStateOversized ==
    /\ ctx.new_state.code.cells + ctx.new_state.data_cells
           + LibCells(ctx.new_state.libraries.entries)
         > st.config.size_limits.max_acc_state_cells
    /\ hist.initial.state.status = "Active" =>
           ctx.new_state # hist.initial.state.init

\* C26: after all actions succeeded, a non-special account whose new state
\* exceeds the size limits gets success = false, result_code = 50 and
\* state_exceeds_limits = true, the fine-on-error is applied (the fine, with
\* the collected action fees under charge_action_fees_on_fail, is taken from
\* the balance and added to total_fees) and out_msgs, end_lt, the balance
\* changes of sends and reserves and new_state with its libraries are not
\* committed; for a special account the check is skipped and the phase
\* succeeds, and so it does when the new state is within the limits.
C26_StateLimitCheck ==
    AllActionsSucceeded =>
        IF ~st.is_special /\ NewStateOversized
        THEN /\ ~res.action_phase.success
             /\ res.action_phase.result_code = 50
             /\ res.state_exceeds_limits
             /\ res.action_fine =
                    AfterLastAction.res.action_fine
                      + (IF st.charge_action_fees_on_fail
                         THEN Amount(AfterLastAction.res.action_phase.total_action_fees)
                         ELSE 0)
             /\ res.action_phase.total_fwd_fees = None
             /\ res.action_phase.total_action_fees =
                    (IF res.action_fine = 0 THEN None ELSE res.action_fine)
             /\ st.balance.tokens = hist.initial.balance.tokens - res.action_fine
             /\ st.balance.other = hist.initial.balance.other
             /\ st.total_fees = hist.initial.total_fees + res.action_fine
             /\ st.out_msgs = hist.initial.out_msgs
             /\ st.end_lt = hist.initial.end_lt
             /\ st.state = hist.initial.state
             /\ st.end_status = hist.initial.end_status
        ELSE /\ res.action_phase.success
             /\ res.action_phase.result_code = 0
             /\ ~res.state_exceeds_limits
             /\ st.state.init = ctx.new_state
             /\ st.out_msgs = ctx.out_msgs

\* C26 witness: a message was sent and the code then set made the state of a
\* non-special account too large; the phase returned code 50 with the fees of
\* the message charged as a fine and neither the message nor the code kept.
C26_Witness ==
    /\ AllActionsSucceeded
    /\ ~st.is_special
    /\ NewStateOversized
    /\ Len(hist.log) = 2
    /\ hist.log[1].action.type = "SendMsg"
    /\ hist.log[2].action.type = "SetCode"
    /\ ctx.out_msgs # <<>>
    /\ st.out_msgs = <<>>
    /\ res.action_fine > 0
    /\ res.action_phase.result_code = 50

-----------------------------------------------------------------------------
(* Properties of the action phase: the value of the inbound message        *)

\* An internal message sent with WITH_REMAINING_BALANCE.
WithRemaining(e) ==
    /\ e.action.msg.kind = "Int"
    /\ HasFlag(e.action.mode, WITH_REMAINING_BALANCE)
    /\ ~HasFlag(e.action.mode, ALL_BALANCE)

\* What is left of the value of the inbound message when the action of
\* entry e is called.
InboundLeft(e) ==
    IF e.pre.ctx.received_message.present
    THEN e.pre.ctx.received_message.balance_remaining
    ELSE [tokens |-> 0, other |-> 0]

\* The gas fees of the compute phase and the fines accumulated when the
\* action of entry e is called.
FeesAndFines(e) == inp.gas_fees + e.pre.res.action_fine

\* C27 as stated: an internal SendMsg with WITH_REMAINING_BALANCE attaches its
\* declared value plus what remains of the inbound value after compute gas
\* fees and accumulated fines are subtracted, and it fails with code 37 (or is
\* skipped under IGNORE_ERROR) when that subtraction underflows.
C27_AsStated ==
    \A k \in SendEntries :
        LET e == hist.log[k]
            net == InboundLeft(e).tokens - FeesAndFines(e)
            fee == IF HasFlag(e.action.mode, PAY_FEE_SEPARATELY) THEN 0 ELSE FwdFeeOf(e)
        IN  WithRemaining(e) =>
              /\ Emitted(e) =>
                    Out(e).value.tokens = e.action.msg.value.tokens + net - fee
              /\ (WellFormed(e) /\ net < 0) =>
                    IF HasFlag(e.action.mode, IGNORE_ERROR)
                    THEN SkippedEntry(e) /\ ~Emitted(e)
                    ELSE /\ ~e.ok
                         /\ e.post.res.action_phase.result_code = NotEnoughBalance

\* C27: an internal SendMsg with WITH_REMAINING_BALANCE adds to its declared
\* value what is left of the inbound value, tokens and extra currencies.
\* Without PAY_FEE_SEPARATELY the accumulated fines and the compute gas fees
\* are subtracted from that sum, which is what the balance pays, and the
\* message carries it less the forwarding fee; when the sum is below fines
\* plus gas fees the action of a non-special account fails with code 37, or
\* is skipped under IGNORE_ERROR, and no fine is added.  With
\* PAY_FEE_SEPARATELY nothing is subtracted: the message carries the whole sum
\* and the balance pays the sum and the forwarding fee.
C27_RemainingBalanceValue ==
    \A k \in SendEntries :
        LET e == hist.log[k]
            sum == e.action.msg.value.tokens + InboundLeft(e).tokens
            separately == HasFlag(e.action.mode, PAY_FEE_SEPARATELY)
        IN  WithRemaining(e) =>
              /\ Emitted(e) =>
                    Out(e).value.other = e.action.msg.value.other + InboundLeft(e).other
              /\ (Emitted(e) /\ ~separately) =>
                    /\ sum >= FeesAndFines(e) + FwdFeeOf(e)
                    /\ Out(e).value.tokens = sum - FeesAndFines(e) - FwdFeeOf(e)
                    /\ PaidBy(e) = sum - FeesAndFines(e)
              /\ (Emitted(e) /\ separately) =>
                    /\ Out(e).value.tokens = sum
                    /\ PaidBy(e) = sum + FwdFeeOf(e)
              /\ (WellFormed(e) /\ ~st.is_special /\ ~separately
                    /\ sum < FeesAndFines(e)) =>
                    /\ FineOf(e) = 0
                    /\ IF HasFlag(e.action.mode, IGNORE_ERROR)
                       THEN SkippedEntry(e) /\ ~Emitted(e)
                       ELSE /\ ~e.ok
                            /\ e.post.res.action_phase.result_code = NotEnoughBalance

\* C27 witness: after a skipped action had been fined, a message sent with
\* WITH_REMAINING_BALANCE and without PAY_FEE_SEPARATELY carried its declared
\* value and the inbound value less the fine, the gas fees and its fee.
C27_Witness ==
    /\ Len(hist.log) = 2
    /\ hist.log[1].post.res.action_fine > 0
    /\ WithRemaining(hist.log[2])
    /\ ~HasFlag(hist.log[2].action.mode, PAY_FEE_SEPARATELY)
    /\ Emitted(hist.log[2])
    /\ InboundLeft(hist.log[2]).tokens > 0
    /\ FwdFeeOf(hist.log[2]) > 0

\* The action of entry e used the value of the inbound message.
UsesInbound(e) ==
    /\ e.action.type = "SendMsg"
    /\ e.action.msg.kind = "Int"
    /\ \/ HasFlag(e.action.mode, ALL_BALANCE)
       \/ HasFlag(e.action.mode, WITH_REMAINING_BALANCE)
    /\ Emitted(e)

\* C28: the value of the inbound message is consumed at most once.  After an
\* internal message was sent with ALL_BALANCE or WITH_REMAINING_BALANCE the
\* balance_remaining of the inbound message is zero, and it stays zero, so a
\* later WITH_REMAINING_BALANCE message carries nothing of it: its declared
\* value only, less fines, gas fees and its fee unless PAY_FEE_SEPARATELY.
\* An action that is skipped or fails, and any other action, leaves
\* balance_remaining as it found it.
C28_InboundConsumedOnce ==
    \A k \in 1..Len(hist.log) :
        LET e == hist.log[k] IN
        /\ k = 1 => e.pre.ctx.received_message = inp.received_message
        /\ k > 1 => e.pre.ctx.received_message = hist.log[k - 1].post.ctx.received_message
        /\ IF UsesInbound(e) /\ e.pre.ctx.received_message.present
           THEN e.post.ctx.received_message.balance_remaining = [tokens |-> 0, other |-> 0]
           ELSE e.post.ctx.received_message = e.pre.ctx.received_message
        /\ \A j \in 1..Len(hist.log) :
              (j > k /\ UsesInbound(e)) =>
                  /\ InboundLeft(hist.log[j]) = [tokens |-> 0, other |-> 0]
                  /\ (WithRemaining(hist.log[j]) /\ Emitted(hist.log[j])) =>
                        Out(hist.log[j]).value.tokens =
                            hist.log[j].action.msg.value.tokens
                              - (IF HasFlag(hist.log[j].action.mode, PAY_FEE_SEPARATELY)
                                 THEN 0
                                 ELSE FeesAndFines(hist.log[j]) + FwdFeeOf(hist.log[j]))

\* C28 witness: two messages were sent with WITH_REMAINING_BALANCE; the first
\* carried the value of the inbound message, the second its declared value
\* only.
C28_Witness ==
    /\ Len(hist.log) = 2
    /\ WithRemaining(hist.log[1]) /\ Emitted(hist.log[1])
    /\ InboundLeft(hist.log[1]).tokens > 0
    /\ Out(hist.log[1]).value.tokens > hist.log[1].action.msg.value.tokens
    /\ WithRemaining(hist.log[2]) /\ Emitted(hist.log[2])
    /\ Out(hist.log[2]).value.tokens = hist.log[2].action.msg.value.tokens

-----------------------------------------------------------------------------
(* Properties of the VM: the step and the handling of exceptions           *)

\* step() was called at least once, and the last call returned Ok.
Stepped == vm.last.kind # "none"
SteppedOk == Stepped /\ vm.last.result = "ok"

\* What the last step found and did, as a state predicate.
StepBranches ==
    /\ vm.steps > 0 => Stepped
    /\ Stepped => vm.last.kind \in {"dispatch", "jmpref", "ret"}
    /\ Stepped =>
          /\ vm.last.kind = "dispatch" <=> vm.last.code.ops > 0
          /\ vm.last.kind = "jmpref" <=>
                 (vm.last.code.ops = 0 /\ vm.last.code.refs > 0)
          /\ vm.last.kind = "ret" <=>
                 (vm.last.code.ops = 0 /\ vm.last.code.refs = 0)
    /\ (SteppedOk /\ vm.last.kind = "jmpref") =>
          /\ vm.last.gas >= 2
          /\ vm.gas = vm.last.gas - 2
          /\ vm.code = [ops |-> 1, refs |-> vm.last.code.refs - 1]
          /\ vm.c0 = vm.last.c0
          /\ vm.res = 0
    /\ (Stepped /\ vm.last.kind = "jmpref" /\ vm.last.gas < 2) =>
          /\ vm.last.result = "out_of_gas"
          /\ vm.code = vm.last.code
    /\ (SteppedOk /\ vm.last.kind = "ret") =>
          /\ vm.last.gas >= 1
          /\ vm.gas = vm.last.gas - 1
          /\ vm.c0 = IF /\ vm.last.c0.kind = "Ord"
                         /\ (vm.last.c0.has_stack \/ vm.last.c0.nargs # -1)
                         /\ vm.last.c0.c0.kind # "None"
                      THEN vm.last.c0.c0
                      ELSE [kind |-> "Quit", exit_code |-> 0,
                            code |-> [ops |-> 0, refs |-> 0]]
          /\ IF vm.last.c0.kind = "Quit"
             THEN vm.res = -1 - vm.last.c0.exit_code /\ vm.code = vm.last.code
             ELSE vm.res = 0 /\ vm.code = vm.last.c0.code
    /\ (Stepped /\ vm.last.kind = "ret" /\ vm.last.gas < 1) =>
          /\ vm.last.result = "out_of_gas"
          /\ vm.c0 = vm.last.c0
    /\ (pc = "vm_returned" /\ ~vm.throw_on_code_access
          /\ vm.last.handling # "fatal") => vm.res # 0

\* C29: each step does exactly one of three things: it dispatches an opcode
\* when the code slice has data bits left; otherwise, with references left,
\* it charges the gas of an implicit JMPREF and of the cell, and the first
\* reference becomes the code; otherwise it charges the gas of an implicit
\* RET and jumps to the continuation in c0, which is replaced by quit0 (a
\* continuation with a saved stack or nargs then puts the c0 of its savelist
\* in the place of quit0).
\* run() makes a step as long as the result is zero and returns without a
\* further step once a step or the handling of an exception yields a
\* non-zero result.
C29_VmStep ==
    /\ []StepBranches
    /\ [][(pc = "vm_loop" /\ vm.res = 0) => vm'.steps > vm.steps]_vars
    /\ [][(pc = "vm_loop" /\ vm.res # 0) =>
             (pc' = "vm_returned" /\ vm'.steps = vm.steps /\ vm'.last = vm.last)]_vars

\* C29 witness: a called continuation ran out of code and the implicit RET
\* went back to the code of the caller saved in c0, leaving quit0 in c0.
C29_Witness ==
    /\ pc = "vm_loop"
    /\ SteppedOk
    /\ vm.last.kind = "ret"
    /\ vm.last.c0.kind = "Ord"
    /\ vm.code = vm.last.c0.code
    /\ vm.c0.kind = "Quit"
    /\ vm.steps = 3
    /\ vm.res = 0

\* The last step failed with an exception other than out of gas, which was
\* thrown; and the ways its handling ended.
Thrown == Stepped /\ vm.last.result = "exception"
Handled == Thrown /\ vm.last.handling = "ok"
DoubleException == Thrown /\ vm.last.handling = "fatal"

\* What throw_exception did for the exception of the last step: the stack,
\* the code, the gas and the jump to c2.
ExceptionThrown ==
    /\ Thrown => vm.last.exception > 0 /\ vm.last.exception # 13
    /\ Thrown => vm.last.handling \in {"ok", "out_of_gas", "fatal"}
    /\ (Handled /\ vm.c2 = "ExcQuit") =>
          /\ vm.res = -vm.last.exception - 1
          /\ vm.stack = <<0>>
          /\ vm.code = [ops |-> 0, refs |-> 0]
    /\ (Handled /\ vm.c2 # "ExcQuit") =>
          /\ vm.c2 = "Handler"
          /\ vm.res = 0
          /\ vm.stack = <<0, vm.last.exception>>
          /\ vm.code = [ops |-> 4, refs |-> 0]
    /\ (Handled /\ vm.last.kind = "dispatch") => vm.gas = vm.last.gas - 2
    /\ (Thrown /\ vm.last.handling = "out_of_gas") =>
          /\ vm.res = 13
          /\ vm.gas = 0
          /\ vm.code = [ops |-> 0, refs |-> 0]
    /\ DoubleException =>
          /\ pc = "vm_returned"
          /\ vm.stack = <<0, vm.last.exception>>
          /\ vm.code = [ops |-> 0, refs |-> 0]
          /\ vm.c2 \in {"None", "Handler"}

RanOutOfGas ==
    /\ Stepped
    /\ \/ vm.last.result = "out_of_gas"
       \/ (vm.last.result = "exception" /\ vm.last.handling = "out_of_gas")

\* What is left of a run that ran out of gas.
OutOfGasState ==
    RanOutOfGas =>
        /\ vm.res = 13
        /\ vm.stack = <<vm.limit - vm.gas>>
        /\ vm.last.result = "out_of_gas" =>
              /\ vm.last.exception = 0
              /\ vm.last.handling = "none"
              /\ vm.code = vm.last.code
              /\ vm.c0 = vm.last.c0
        /\ vm.last.result = "exception" => vm.code = [ops |-> 0, refs |-> 0]
        /\ pc = "vm_returned" => vm.exit_code = 13

\* C31: out of gas is always fatal.  When a step, or the handling of an
\* exception, fails with out of gas, the result is the positive code 13, the
\* stack holds exactly one value, the gas consumed, the continuation in c2 is
\* not jumped to, and run() returns 13 with the next transition, without a
\* further step and with commited_state, stack and registers as they were.
C31_OutOfGasFatal ==
    /\ []OutOfGasState
    /\ []((pc = "vm_returned" /\ vm.exit_code = 13) => RanOutOfGas)
    /\ [][(pc = "vm_loop" /\ RanOutOfGas) =>
             /\ pc' = "vm_returned"
             /\ vm' = [vm EXCEPT !.exit_code = 13]]_vars
    /\ [][(pc = "vm_loop" /\ vm.res = 0 /\ vm'.res = 13) =>
             /\ vm'.commited_state = vm.commited_state
             /\ vm'.c2 = vm.c2 /\ vm'.c4 = vm.c4 /\ vm'.c5 = vm.c5]_vars

\* C31 witness: with a handler installed in c2 and c4 replaced, an invalid
\* opcode used the last gas and its handling ran out of gas: run() returned
\* 13 with the consumed gas on the stack, the handler not entered and nothing
\* committed.
C31_Witness ==
    /\ pc = "vm_returned"
    /\ vm.exit_code = 13
    /\ vm.last.result = "exception"
    /\ vm.last.handling = "out_of_gas"
    /\ vm.c2 = "Handler"
    /\ vm.c4 = [level |-> 0, depth |-> 512]
    /\ vm.stack = <<3>>
    /\ ~vm.commited_state.some

\* c4 and c5 can be committed: both at level 0 and of depth at most 512.
Committable ==
    /\ vm.c4.level = 0 /\ vm.c5.level = 0
    /\ vm.c4.depth <= 512 /\ vm.c5.depth <= 512

\* run() returns with this transition.
Returning == pc \in {"vm_start", "vm_loop"} /\ pc' = "vm_returned"

\* The return of run() with everything but the stack left by a failed
\* automatic commit.
ReturnStep(cleared) ==
    Returning =>
        IF pc = "vm_loop" /\ vm.res \in {-1, -2}
        THEN IF Committable
             THEN /\ vm'.commited_state = [some |-> TRUE, c4 |-> vm.c4, c5 |-> vm.c5]
                  /\ vm'.exit_code = vm.res
                  /\ vm'.stack = vm.stack
             ELSE /\ vm'.commited_state = vm.commited_state
                  /\ vm'.exit_code = -9
                  /\ vm'.stack = cleared
        ELSE /\ vm'.commited_state = vm.commited_state
             /\ (pc = "vm_loop" /\ vm.res # 0) =>
                   /\ vm'.exit_code = vm.res
                   /\ vm'.stack = vm.stack

\* C32 as stated: run() attempts the automatic commit exactly when the result
\* is -1 or -2, commits c4 and c5 only at level 0 and depth <= 512, and when
\* the attempt fails forces the CellOverflow exit code, clears the stack and
\* leaves commited_state as it was.
C32_AsStated == [][ReturnStep(<<>>)]_vars

\* C32: run() attempts the automatic commit exactly when the result is -1 or
\* -2 (exit code 0 or 1).  c4 and c5 are committed only when both are at level
\* 0 and of depth <= 512, and then run() returns the result with the stack as
\* it is.  When the attempt fails run() returns the CellOverflow exit code -9,
\* commited_state keeps its previous value, and the stack is replaced by the
\* single value 0.  Every other return leaves commited_state as it was.
C32_AutoCommit == [][ReturnStep(<<0>>)]_vars

\* C32 witness: c4 and c5 were committed by an instruction, c4 was then
\* replaced by a cell that is too deep and the code returned to quit0: run()
\* returned -9 with the stack [0] and the earlier commit kept.
C32_Witness ==
    /\ pc = "vm_returned"
    /\ vm.exit_code = -9
    /\ vm.res = -1
    /\ vm.stack = <<0>>
    /\ vm.c4 = [level |-> 0, depth |-> 513]
    /\ vm.commited_state.some
    /\ vm.commited_state.c4 # vm.c4
    /\ vm.last.kind = "ret"

-----------------------------------------------------------------------------
(* Properties of the VM: jumps and calls                                   *)

\* The last step dispatched the instruction `op`, which went as far as the
\* checks of its arguments.
Dispatched(op) == Stepped /\ vm.last.op = op

\* An absent number of arguments counts as 0.
OrZero(n) == IF n = -1 THEN 0 ELSE n

\* The depth of the stack the last instruction found, and the depth
\* next_depth computed from nargs of its continuation and its pass_args.
DepthFound == Len(vm.last.stack)
NextDepth ==
    IF vm.last.cont.nargs # -1 THEN vm.last.cont.nargs
    ELSE IF vm.last.pass_args # -1 THEN vm.last.pass_args
    ELSE DepthFound

\* The top n values of the stack the last instruction found.
TopFound(n) == [i \in 1..n |-> vm.last.stack[DepthFound - n + i]]

\* What a jump_ext does when `required` tells whether its arguments pass.
JumpExtStep(required) ==
    Dispatched("jump_ext") =>
        IF required
        THEN /\ vm.last.result = "ok"
             /\ vm.stack = vm.last.cont.stack \o TopFound(NextDepth)
             /\ Len(vm.stack) = NextDepth + Len(vm.last.cont.stack)
             /\ vm.code = vm.last.cont.code
        ELSE /\ vm.last.result = "exception"
             /\ vm.last.exception = 2
             /\ vm.c0 = vm.last.c0

\* C33 as stated: jump_ext to a continuation with control data requires
\* nargs <= pass_args <= depth, each taken as 0 when absent, and fails with
\* StackUnderflow otherwise.
C33_AsStated ==
    JumpExtStep(/\ OrZero(vm.last.cont.nargs) <= OrZero(vm.last.pass_args)
                /\ OrZero(vm.last.pass_args) <= DepthFound)

\* C33: jump_ext to a continuation with control data requires pass_args <=
\* depth and nargs <= depth, each taken as 0 when absent, and nargs <=
\* pass_args only when pass_args is present; otherwise it fails with
\* StackUnderflow and c0 is as it was.  On success the new stack is the saved
\* stack of the continuation followed by the top next_depth values of the
\* current stack, where next_depth is nargs if present, else pass_args if
\* present, else the current depth, and the code is that of the continuation.
C33_JumpExt ==
    JumpExtStep(/\ OrZero(vm.last.pass_args) <= DepthFound
                /\ OrZero(vm.last.cont.nargs) <= DepthFound
                /\ vm.last.pass_args # -1 =>
                       OrZero(vm.last.cont.nargs) <= vm.last.pass_args)

\* C33 witness: a jump with pass_args = 2 to a continuation that expects one
\* argument and has the stack [7], from the stack [1, 2, 3]: the new stack is
\* [7, 3].
C33_Witness ==
    /\ Dispatched("jump_ext")
    /\ vm.last.result = "ok"
    /\ vm.last.pass_args = 2
    /\ vm.last.cont.nargs = 1
    /\ vm.last.cont.stack = <<7>>
    /\ vm.last.stack = <<1, 2, 3>>
    /\ vm.stack = <<7, 3>>

\* The last step dispatched a call or a call_ext that passed its checks.
CallMade == (Dispatched("call") \/ Dispatched("call_ext")) /\ vm.last.result = "ok"

\* The code of the caller behind the instruction of the last step.
RemainingCode == [ops |-> vm.last.code.ops - 1, refs |-> vm.last.code.refs]

\* The number of values a call passes, and the number of them the callee gets.
Passed == IF vm.last.pass_args = -1 THEN DepthFound ELSE vm.last.pass_args
Copied ==
    IF vm.last.pass_args = -1 THEN DepthFound
    ELSE IF vm.last.cont.nargs # -1 THEN vm.last.cont.nargs
    ELSE vm.last.pass_args

\* The values of the stack the last instruction found below its top n.
BelowFound(n) == [i \in 1..(DepthFound - n) |-> vm.last.stack[i]]

\* What a call does, `callee` being the stack the callee is to run on when a
\* return continuation is installed.
CallStep(callee) ==
    CallMade =>
        /\ vm.code = vm.last.cont.code
        /\ IF vm.last.cont.c0.kind # "None"
           THEN /\ vm.c0 \in {vm.last.c0, vm.last.cont.c0}
                /\ vm.stack = vm.last.cont.stack \o TopFound(NextDepth)
           ELSE /\ vm.c0.kind = "Ord"
                /\ vm.c0.code = RemainingCode
                /\ vm.c0.c0 = vm.last.c0
                /\ vm.c0.nargs = vm.last.ret_args
                /\ IF vm.last.op = "call" /\ ~vm.last.cont.has_stack
                        /\ vm.last.cont.nargs = -1
                   THEN /\ ~vm.c0.has_stack
                        /\ vm.stack = vm.last.stack
                   ELSE /\ vm.c0.has_stack
                        /\ vm.c0.stack = BelowFound(Passed)
                        /\ vm.stack = callee

\* C34 as stated: a call of a continuation with c0 in its savelist is a jump
\* and installs no return continuation; otherwise c0 becomes a return
\* continuation with the remaining code and the previous c0, for call_ext
\* with nargs = ret_args and the old stack minus the passed arguments, and
\* the callee runs on the top pass_args values, all when pass_args is absent.
C34_AsStated == CallStep(TopFound(Passed))

\* C34: a call of a continuation with c0 in its savelist is a jump and
\* installs no return continuation; otherwise c0 becomes a return
\* continuation with the remaining code and the previous c0, for call_ext
\* with nargs = ret_args and the old stack minus the passed arguments.  The
\* callee runs on its own saved stack followed by the top values of the
\* caller: all of them when pass_args is absent, nargs of them when the
\* continuation has nargs, else pass_args of them.
C34_Call == CallStep(vm.last.cont.stack \o TopFound(Copied))

\* C34 witness: call_ext with pass_args = 1 and ret_args = 1 of a
\* continuation without control data, from the code with one more opcode and
\* the stack [1, 2, 3]: the callee runs on [3], c0 holds the code, quit0,
\* nargs 1 and the stack [1, 2].
C34_Witness ==
    /\ CallMade
    /\ vm.last.op = "call_ext"
    /\ vm.last.pass_args = 1
    /\ vm.last.stack = <<1, 2, 3>>
    /\ vm.stack = <<3>>
    /\ vm.c0.kind = "Ord"
    /\ vm.c0.code = [ops |-> 1, refs |-> 0]
    /\ vm.c0.nargs = 1
    /\ vm.c0.stack = <<1, 2>>
    /\ vm.c0.c0.kind = "Quit"

-----------------------------------------------------------------------------
(* Properties of the action phase: the counters and the logical time       *)

\* The actions of the list skipped when the list was parsed.
SkippedInValidation ==
    {i \in 1..Len(ctx.parsed_list) : ctx.parsed_list[i].type = "None"}

\* What an executed action added to the three counters.
CreatedBy(e) ==
    e.post.res.action_phase.messages_created - e.pre.res.action_phase.messages_created
SpecialBy(e) ==
    e.post.res.action_phase.special_actions - e.pre.res.action_phase.special_actions
SkippedBy(e) ==
    e.post.res.action_phase.skipped_actions - e.pre.res.action_phase.skipped_actions

\* C35: in a successful action phase total_actions = messages_created +
\* special_actions + skipped_actions.  total_actions is the length of the
\* list; every action skipped in validation added one to skipped_actions and
\* was not executed; every executed action added one to exactly one counter:
\* a SendMsg to messages_created or to skipped_actions, a SetCode, a
\* ReserveCurrency or a ChangeLibrary to special_actions.
C35_CounterPartition ==
    Succeeded =>
        /\ res.action_phase.total_actions =
               res.action_phase.messages_created
                 + res.action_phase.special_actions
                 + res.action_phase.skipped_actions
        /\ res.action_phase.total_actions = Len(ctx.parsed_list)
        /\ Len(hist.log) + Cardinality(SkippedInValidation) = Len(ctx.parsed_list)
        /\ res.action_phase.skipped_actions =
               Cardinality(SkippedInValidation)
                 + Cardinality({k \in 1..Len(hist.log) : SkippedBy(hist.log[k]) = 1})
        /\ \A k \in 1..Len(hist.log) :
              LET e == hist.log[k] IN
              /\ CreatedBy(e) + SpecialBy(e) + SkippedBy(e) = 1
              /\ {CreatedBy(e), SpecialBy(e), SkippedBy(e)} = {0, 1}
              /\ SpecialBy(e) = 1 <=> e.action.type # "SendMsg"
              /\ ctx.parsed_list[e.idx + 1].type # "None"

\* C35 witness: a list of two actions, a message skipped in execution and a
\* special action.
C35_Witness ==
    /\ Succeeded
    /\ res.action_phase.total_actions = 2
    /\ res.action_phase.skipped_actions = 1
    /\ Len(hist.log) = 2
    /\ SkippedBy(hist.log[1]) = 1
    /\ SpecialBy(hist.log[2]) = 1

\* C36: in a successful action phase the committed end_lt is the initial
\* end_lt plus messages_created, out_msgs has messages_created entries, the
\* k-th of them (from 0) has created_lt = initial end_lt + k, and an executed
\* action advances end_lt by one when it creates a message and not at all
\* when it is skipped or special.
C36_LogicalTime ==
    Succeeded =>
        /\ st.end_lt = hist.initial.end_lt + res.action_phase.messages_created
        /\ Len(st.out_msgs) = res.action_phase.messages_created
        /\ \A k \in 1..Len(st.out_msgs) :
              st.out_msgs[k].created_lt = hist.initial.end_lt + k - 1
        /\ \A k \in 1..Len(st.out_msgs) : \A j \in 1..(k - 1) :
              st.out_msgs[j].created_lt < st.out_msgs[k].created_lt
        /\ \A k \in 1..Len(hist.log) :
              LET e == hist.log[k] IN
              /\ e.post.ctx.end_lt - e.pre.ctx.end_lt = CreatedBy(e)
              /\ Len(e.post.ctx.out_msgs) - Len(e.pre.ctx.out_msgs) = CreatedBy(e)

\* C36 witness: two messages created by one phase, the second with the
\* created_lt that follows the first, and end_lt advanced by two.
C36_Witness ==
    /\ Succeeded
    /\ res.action_phase.messages_created = 2
    /\ st.out_msgs[1].created_lt = hist.initial.end_lt
    /\ st.out_msgs[2].created_lt = hist.initial.end_lt + 1
    /\ st.end_lt = hist.initial.end_lt + 2

-----------------------------------------------------------------------------
(* Properties of the action phase: rewrites, reservations, the result      *)

\* do_send_message returned Rewrite and is about to be called again.
Rewriting == pc = "exec" /\ ctx.rewrite # "None"

\* C37: a do_send_message call that returns Rewrite leaves the remaining and
\* the reserved balance, the fine, out_msgs, end_lt, what is left of the
\* value of the inbound message, the new state and the whole ActionPhase as
\* they were before the first call for the message; a message sent after
\* rewrites is counted and paid for once, without a fine.
C37_RewriteNoEffect ==
    /\ Rewriting =>
          /\ ctx.remaining_balance = hist.pre.ctx.remaining_balance
          /\ ctx.reserved_balance = hist.pre.ctx.reserved_balance
          /\ ctx.out_msgs = hist.pre.ctx.out_msgs
          /\ ctx.end_lt = hist.pre.ctx.end_lt
          /\ ctx.received_message = hist.pre.ctx.received_message
          /\ ctx.new_state = hist.pre.ctx.new_state
          /\ ctx.delete_account = hist.pre.ctx.delete_account
          /\ res.action_fine = hist.pre.res.action_fine
          /\ res.action_phase = hist.pre.res.action_phase
          /\ res.bounce = hist.pre.res.bounce
          /\ st = hist.initial
    /\ \A k \in SendEntries :
          LET e == hist.log[k] IN
          (Emitted(e) /\ Len(e.calls) > 1) =>
              /\ e.post.res.action_fine = e.pre.res.action_fine
              /\ Len(e.post.ctx.out_msgs) = Len(e.pre.ctx.out_msgs) + 1
              /\ e.post.ctx.end_lt = e.pre.ctx.end_lt + 1
              /\ e.post.res.action_phase.total_fwd_fees =
                     OrZero(e.pre.res.action_phase.total_fwd_fees)
                       + Out(e).fwd_fee
                       + (e.post.res.action_phase.total_action_fees
                            - OrZero(e.pre.res.action_phase.total_action_fees))

\* C37 witness: the second rewrite of the second message of a list is about
\* to be tried; the first message was sent, and nothing has changed since.
C37_Witness ==
    /\ Rewriting
    /\ hist.calls = <<"None", "StateInitToCell">>
    /\ Len(hist.log) = 1
    /\ Emitted(hist.log[1])
    /\ ctx.out_msgs = hist.log[1].post.ctx.out_msgs
    /\ ctx.remaining_balance = hist.log[1].post.ctx.remaining_balance
    /\ res.action_phase.total_fwd_fees > 0

\* The funds of the account in the context: remaining plus reserved.
Funds(s) ==
    [tokens |-> s.ctx.remaining_balance.tokens + s.ctx.reserved_balance.tokens,
     other |-> s.ctx.remaining_balance.other + s.ctx.reserved_balance.other]

\* C38: every successful ReserveCurrency leaves remaining_balance +
\* reserved_balance, in tokens and in the extra currency, equal to what it
\* was before the action, with ALL_BUT and without it, and leaves no part of
\* remaining_balance or reserved_balance negative.
C38_ReserveConserves ==
    \A k \in ReserveEntries :
        LET e == hist.log[k] IN
        e.ok =>
            /\ Funds(e.post).tokens = Funds(e.pre).tokens
            /\ Funds(e.post).other = Funds(e.pre).other
            /\ e.post.ctx.remaining_balance.tokens >= 0
            /\ e.post.ctx.remaining_balance.other >= 0
            /\ e.post.ctx.reserved_balance.tokens >= e.pre.ctx.reserved_balance.tokens
            /\ e.post.ctx.reserved_balance.other >= e.pre.ctx.reserved_balance.other

\* C38 witness: after a reservation, a second one with ALL_BUT moved tokens
\* from the remaining to the reserved balance and left some of both.
C38_Witness ==
    /\ Len(hist.log) = 2
    /\ hist.log[1].action.type = "ReserveCurrency" /\ hist.log[1].ok
    /\ hist.log[2].action.type = "ReserveCurrency" /\ hist.log[2].ok
    /\ HasFlag(hist.log[2].action.mode, ALL_BUT)
    /\ hist.log[2].pre.ctx.reserved_balance.tokens > 0
    /\ hist.log[2].post.ctx.reserved_balance.tokens >
           hist.log[2].pre.ctx.reserved_balance.tokens
    /\ hist.log[2].post.ctx.remaining_balance.tokens > 0

\* action_phase returned Ok(res).
PhaseReturned == pc = "done"

\* C39: in every result action_phase returns, success implies valid,
\* result_code = 0, no result_arg, and no_funds, bounce and
\* state_exceeds_limits all false; valid = false implies no success, a
\* result_code of 32, 33 or 34, no fine and no counter changed except
\* total_actions and skipped_actions; no_funds implies result_code 37 or 38;
\* and every failure has a result_code among 32..43 and 50.
C39_ResultFlags ==
    PhaseReturned =>
        LET p == res.action_phase IN
        /\ p.success =>
              /\ p.valid
              /\ p.result_code = 0
              /\ p.result_arg = -1
              /\ ~p.no_funds
              /\ ~res.bounce
              /\ ~res.state_exceeds_limits
        /\ ~p.valid =>
              /\ ~p.success
              /\ p.result_code \in {32, 33, 34}
              /\ res.action_fine = 0
              /\ p.special_actions = 0
              /\ p.messages_created = 0
              /\ p.total_fwd_fees = -1
              /\ p.total_action_fees = -1
              /\ p.total_message_size = [bits |-> 0, cells |-> 0]
              /\ ~p.no_funds
              /\ ~res.state_exceeds_limits
              /\ p.status_change = "Unchanged"
        /\ p.no_funds => p.result_code \in {37, 38}
        /\ ~p.success => p.result_code \in (32..43) \cup {50}
        /\ res.state_exceeds_limits <=> p.result_code = 50

\* C39 witness: a list whose second action fails for lack of extra currency
\* after the first one created a message: valid, no success, no_funds, code 38.
C39_Witness ==
    /\ PhaseReturned
    /\ res.action_phase.valid
    /\ ~res.action_phase.success
    /\ res.action_phase.no_funds
    /\ res.action_phase.result_code = 38
    /\ res.action_phase.messages_created = 1

\* The mode of an executed action asks for a bounce (flag 16).
AsksBounce(e) == (e.action.mode \div 16) % 2 = 1

\* C40: need_bounce_on_fail is false when an action starts and, when it
\* returns, true exactly if its own mode has BOUNCE_ON_ERROR.  When an action
\* fails, the returned result asks for a bounce exactly if the mode of that
\* action has the flag, whatever the modes of the actions before it and
\* whether or not its mode is valid otherwise; when the state-limit check
\* fails, exactly if the mode of the last executed action has it.
C40_BounceRequest ==
    /\ \A k \in 1..Len(hist.log) :
          LET e == hist.log[k] IN
          /\ ~e.pre.ctx.need_bounce_on_fail
          /\ e.post.ctx.need_bounce_on_fail <=> AsksBounce(e)
    /\ (pc = "done" /\ hist.failed_at # -1) =>
          /\ hist.log # <<>>
          /\ ~hist.log[Len(hist.log)].ok
          /\ res.bounce <=> AsksBounce(hist.log[Len(hist.log)])
    /\ (pc = "done" /\ res.state_exceeds_limits) =>
          /\ hist.failed_at = -1
          /\ \A k \in 1..Len(hist.log) : hist.log[k].ok
          /\ res.bounce <=> (hist.log # <<>> /\ AsksBounce(hist.log[Len(hist.log)]))

\* C40 witness: the first action succeeded with BOUNCE_ON_ERROR in its mode,
\* the second failed without it: no bounce is asked for.
C40_Witness ==
    /\ pc = "done"
    /\ Len(hist.log) = 2
    /\ hist.log[1].ok /\ AsksBounce(hist.log[1])
    /\ ~hist.log[2].ok /\ ~AsksBounce(hist.log[2])
    /\ ~res.bounce

=============================================================================
